---- MODULE Spec2Model ----
(***************************************************************************)
(* A model of the aura-lang build/release tooling:                         *)
(*   - AuraBuilder.run_selected_steps / build_all   (build_release.py)     *)
(*   - AndroidBuilder.build                         (build_android_apk.py) *)
(*   - GradleSetup.setup_and_build        (setup_gradle_and_build_apk.py)  *)
(*   - AuraBuilder.ensure_jdk and its callers       (build_release.py)     *)
(*   - the packager, the repacker, the attestation and the signing of      *)
(*     tools/release/release.py                                            *)
(*   - AuraBuilder.run_command, generate_manifest and the Android steps    *)
(*     as functions of the machine they run on      (build_release.py)     *)
(* Step actions are external collaborators: a step is modelled by what the *)
(* pipeline can observe of it (return value, raised exception, failures    *)
(* its run_command calls append to failed_steps, lines it logs).           *)
(***************************************************************************)
EXTENDS Integers, Sequences, FiniteSets, TLC

(***************************************************************************)
(* Bounds of the model.                                                    *)
(***************************************************************************)
\* longest step selection passed to run_selected_steps
MaxSel == 3

(***************************************************************************)
(* Program constants.                                                      *)
(***************************************************************************)
\* print_summary logs error[:100]
ErrLimit == 100

\* run_command logs output[:200]
OutputLimit == 200

(***************************************************************************)
(* Strings and error texts.  A text is a record: what it says and how long *)
(* it is, so that the truncation error[:100] is a real operation.          *)
(***************************************************************************)
Min(a, b) == IF a < b THEN a ELSE b

Text(t, a, n) == [text |-> t, arg |-> a, len |-> n]

NoText == Text("", "", 0)

\* lengths of the captured error streams / exception messages the model draws
ErrLens == {100, 101}

\* s[:k]
Prefix(e, k) == [e EXCEPT !.len = Min(e.len, k)]

\* len(key) of the selection keys that are not in step_map
StrLen(s) ==
    CASE s = "bogus" -> 5
      [] s = "deploy" -> 6
      [] OTHER -> 0

(***************************************************************************)
(* The step table of run_selected_steps and the step list of build_all.    *)
(***************************************************************************)
StepKeys ==
    {"core", "sentinel", "android", "apk", "apk-package", "verify", "dist",
     "manifest", "docs", "roadmap", "reorg-root"}

step_map(key) ==
    CASE key = "core" -> "Aura Core"
      [] key = "sentinel" -> "Sentinel IDE"
      [] key = "android" -> "Android Setup"
      [] key = "apk" -> "Android APK"
      [] key = "apk-package" -> "APK Packaging"
      [] key = "verify" -> "Binary Verification"
      [] key = "dist" -> "Distribution Creation"
      [] key = "manifest" -> "Manifest Generation"
      [] key = "docs" -> "Docs Aggregate"
      [] key = "roadmap" -> "Roadmap Restructure"
      [] key = "reorg-root" -> "Reorg Root"

\* build_all's steps, by the key run_selected_steps gives the same (name, func)
BuildAllSteps ==
    <<"core", "sentinel", "android", "apk", "apk-package", "verify", "dist",
      "manifest">>

\* keys that are not in step_map
UnknownKeys == {"bogus", "deploy"}

\* the keys a selection is drawn from: steps whose actions fail through a
\* command, by returning False and by raising, and the unknown keys
SelectionKeys == {"core", "apk-package", "dist"} \cup UnknownKeys

RECURSIVE SeqsUpTo(_, _)
SeqsUpTo(S, n) ==
    IF n = 0 THEN {<<>>}
    ELSE LET shorter == SeqsUpTo(S, n - 1)
         IN  shorter \cup {Append(s, x) : s \in {t \in shorter : Len(t) = n - 1}, x \in S}

(***************************************************************************)
(* What a step action can do, as the pipeline sees it: ret is "true",      *)
(* "false" or "raise"; cmds are the descriptions of the run_command calls  *)
(* that failed inside it (each appends to failed_steps); section is the    *)
(* title it passes to log_section.                                         *)
(***************************************************************************)
Cmd(d, ok) == [desc |-> d, ok |-> ok]

Beh(r, c) == [ret |-> r, cmds |-> c]

\* no step action is running
NoBeh == [ret |-> "none", cmds |-> <<>>, err |-> NoText]

StepBehaviours(key) ==
    CASE key = "core" ->
            \* build_aura_core: returns run_command's success
            {Beh("true", <<Cmd("Compile Aura compiler, LSP, and package manager", TRUE)>>),
             Beh("false", <<Cmd("Compile Aura compiler, LSP, and package manager", FALSE)>>)}
      [] key = "sentinel" ->
            \* build_sentinel_ide: npm install, then npm run build
            {Beh("true", <<Cmd("Install npm packages", TRUE),
                           Cmd("Build Sentinel IDE with Vite", TRUE)>>),
             Beh("false", <<Cmd("Install npm packages", FALSE)>>),
             Beh("false", <<Cmd("Install npm packages", TRUE),
                            Cmd("Build Sentinel IDE with Vite", FALSE)>>)}
      [] key = "android" ->
            \* setup_android_toolchain: skip flag or everything present; a
            \* resolution that fails without a command; a failed command
            {Beh("true", <<>>),
             Beh("false", <<>>),
             Beh("false", <<Cmd("Install Microsoft OpenJDK 17 via winget", FALSE)>>),
             Beh("false", <<Cmd("Install Android SDK via setup-android.ps1", FALSE)>>),
             Beh("false", <<Cmd("Generate Gradle wrapper (gradlew.bat)", FALSE)>>)}
      [] key = "apk" ->
            \* build_android_apk: skip flag; toolchain or build script missing;
            \* one run_command per variant, ok_all false if any fails
            {Beh("true", <<>>),
             Beh("true", <<Cmd("Build APK (debug) via sdk/android/build-apk.ps1", TRUE)>>),
             Beh("false", <<>>),
             Beh("false", <<Cmd("Build APK (debug) via sdk/android/build-apk.ps1", FALSE)>>),
             Beh("false", <<Cmd("Build APK (debug) via sdk/android/build-apk.ps1", FALSE),
                            Cmd("Build APK (release) via sdk/android/build-apk.ps1", FALSE)>>)}
      [] key = "apk-package" ->
            \* copy_android_apk_to_dist: True, False (no APK), or mkdir raises
            {Beh("true", <<>>), Beh("false", <<>>), Beh("raise", <<>>)}
      [] key = "verify" ->
            {Beh("true", <<>>), Beh("false", <<>>)}
      [] OTHER ->
            \* dist, manifest, docs, roadmap, reorg-root: return True, or a
            \* filesystem call raises
            {Beh("true", <<>>), Beh("raise", <<>>)}

StepSection(key) ==
    CASE key = "core" -> "STEP 1: Building Aura Core (Cargo Release)"
      [] key = "sentinel" -> "STEP 2: Building Sentinel IDE (Vite)"
      [] key = "android" -> "STEP 3: Bootstrapping Android Toolchain"
      [] key = "apk" -> "STEP 4: Building Android APK"
      [] key = "apk-package" -> "STEP 5: Packaging Android APK"
      [] key = "verify" -> "STEP 6: Verifying Build Artifacts"
      [] key = "dist" -> "STEP 7: Creating Distribution Package"
      [] key = "manifest" -> "STEP 8: Generating Release Manifest"
      [] key = "docs" -> "DOCS: Aggregating Markdown"
      [] key = "roadmap" -> "DOCS: Roadmap Restructure"
      [] key = "reorg-root" -> "REPO: Reorganize Root"

(***************************************************************************)
(* State.                                                                  *)
(***************************************************************************)
VARIABLES
    mode,          \* the entry point that runs: "run_selected_steps", "build_all",
                   \* "AndroidBuilder.build" or "GradleSetup.setup_and_build"
    pc,            \* position in the entry point
    selected,      \* the argument of run_selected_steps
    ordered,       \* run_selected_steps' ordered list / build_all's steps (keys)
    i,             \* index of the next key of selected to resolve
    j,             \* index of the next step of ordered to run
    cur,           \* the behaviour of the step action that is running
    failed_steps,  \* self.failed_steps: (step_name, error) pairs
    failed_count,  \* the local failed_count (in GradleSetup: the local failed_steps)
    failed,        \* AndroidBuilder.build's local failed
    printed,       \* the lines AndroidBuilder.log / GradleSetup.log have printed
    build_log,     \* self.build_log
    log_file,      \* content of build-release.log (<<>> of entries), or "none"
    exit_code,     \* the returned exit status, -1 until the call returns
    err_len,       \* length of the error texts the environment produces in this run
    environ,       \* what ensure_jdk can see of the machine: os.environ, the
                   \* search path, and the files under .tools/
    java_home,     \* self.java_home: "None", "JAVA_HOME" or "jdk-17"
    jdk_calls,     \* history: the calls of ensure_jdk made in this run
    invoked,       \* history: keys of the step actions invoked, in order
    returned       \* history: how each invoked step action ended

vars ==
    <<mode, pc, selected, ordered, i, j, cur, failed_steps, failed_count,
      failed, printed, build_log, log_file, exit_code, err_len, invoked, returned>>

(***************************************************************************)
(* State of tools/release/release.py.                                      *)
(***************************************************************************)
VARIABLES
    rmode,         \* what of release.py runs: "none", "zip" (the packager, twice),
                   \* "repack" (repack_zip_deterministic, twice) or "main"
    rpc,           \* position in it
    staged,        \* the staged tree as each of the two packaging runs finds it
    archives,      \* the archives written so far (in "repack": the source first)
    args,          \* main: the parsed command line
    renv,          \* main: os.name and the AURA_SIGN_* variables of env
    dist,          \* main: the artifacts under dist/, name -> content
    attested,      \* main: history of the sidecars written, in order
    launched,      \* main: history of the external processes launched
    result         \* main: "running", "0", or how the run was aborted

release_vars ==
    <<rmode, rpc, staged, archives, args, renv, dist, attested, launched, result>>

\* release.py does not run
ReleaseIdle ==
    /\ rmode = "none"
    /\ rpc = "none"
    /\ staged = <<>>
    /\ archives = <<>>
    /\ args = <<>>
    /\ renv = <<>>
    /\ dist = <<>>
    /\ attested = <<>>
    /\ launched = <<>>
    /\ result = "none"

(***************************************************************************)
(* State of the step functions of build_release.py taken one at a time.    *)
(***************************************************************************)
VARIABLES
    smode,         \* the function under study: "none", "run_command",
                   \* "generate_manifest" or "android"
    os_environ,    \* os.environ of the orchestrator
    disk,          \* the files the function looks at
    step_calls     \* history: the calls made, with what each did and returned

step_vars == <<smode, os_environ, disk, step_calls>>

\* no step function is under study
StepIdle ==
    /\ smode = "none"
    /\ os_environ = <<>>
    /\ disk = <<>>
    /\ step_calls = <<>>

(***************************************************************************)
(* Logging.                                                                *)
(***************************************************************************)
Entry(level, msg, who, err, n) ==
    [level |-> level, msg |-> msg, who |-> who, err |-> err, n |-> n]

\* AuraBuilder.log: one entry appended to build_log
log(l, level, msg, who, err, n) == Append(l, Entry(level, msg, who, err, n))

\* AuraBuilder.log_section: blank line, separator, title, separator
log_section(l, title) ==
    l \o <<Entry("INFO", "", "", NoText, 0),
           Entry("INFO", "=====", "", NoText, 0),
           Entry("INFO", "section", title, NoText, 0),
           Entry("INFO", "=====", "", NoText, 0)>>

\* AuraBuilder._step_failed
_step_failed(fs, step_name, error) ==
    Append(fs, [step |-> step_name, error |-> error])

\* AuraBuilder.run_command, as far as the builder's state goes: the lines it
\* logs and, on failure, the entry it appends to failed_steps.  err is the
\* captured error stream (or exception text) of a failing command.
run_command_log(l, c, err) ==
    LET l1 == log(l, "INFO", "Running: ", c.desc, NoText, 0)
        l2 == log(l1, "INFO", "  (description)", c.desc, NoText, 0)
    IN  IF c.ok
        THEN log(l2, "INFO", "Output: ", c.desc, Prefix(err, OutputLimit), 0)
        ELSE log(l2, "ERROR", "FAILED: ", c.desc, err, 0)

\* faulty variant: a failure is recorded twice
run_command_failed_twice(fs, c, err) ==
    IF c.ok THEN fs
    ELSE Append(Append(fs, [step |-> c.desc, error |-> err]),
                [step |-> c.desc, error |-> err])

run_command_failed(fs, c, err) ==
    IF c.ok THEN fs ELSE Append(fs, [step |-> c.desc, error |-> err])

RECURSIVE RunCommandsLog(_, _, _)
RunCommandsLog(l, cmds, err) ==
    IF cmds = <<>> THEN l
    ELSE RunCommandsLog(run_command_log(l, Head(cmds), err), Tail(cmds), err)

RECURSIVE RunCommandsFailed(_, _, _)
RunCommandsFailed(fs, cmds, err) ==
    IF cmds = <<>> THEN fs
    ELSE RunCommandsFailed(run_command_failed(fs, Head(cmds), err), Tail(cmds), err)

\* the header run_selected_steps and build_all log first
Header(l, title) ==
    log(log(log(l, "INFO", title, "", NoText, 0),
            "INFO", "Repository: ", "", NoText, 0),
        "INFO", "Started: ", "", NoText, 0)

\* faulty variant: only the first failure is listed
FailureLines_first(l, fs) ==
    IF fs = <<>> THEN l
    ELSE log(l, "WARN", "  - ", Head(fs).step, Prefix(Head(fs).error, ErrLimit), 0)

\* the lines print_summary logs for the failures
RECURSIVE FailureLines(_, _)
FailureLines(l, fs) ==
    IF fs = <<>> THEN l
    ELSE FailureLines(
            log(l, "WARN", "  - ", Head(fs).step, Prefix(Head(fs).error, ErrLimit), 0),
            Tail(fs))

\* AuraBuilder.print_summary; dist_exists: dist-release/ exists
print_summary(l, fs, dist_exists) ==
    LET l1 == log(log_section(l, "BUILD SUMMARY"),
                  "INFO", "Build completed in: ", "", NoText, 0)
        l2 == IF fs # <<>>
              THEN FailureLines(log(l1, "WARN", "Failed steps: ", "", NoText, Len(fs)), fs)
              ELSE log(l1, "SUCCESS", "All steps completed successfully!", "", NoText, 0)
    IN  IF dist_exists
        THEN log(log(l2, "INFO", "Release package size: ", "", NoText, 0),
                 "INFO", "Location: ", "", NoText, 0)
        ELSE l2

(***************************************************************************)
(* AuraBuilder.ensure_jdk.  The machine, as far as ensure_jdk looks at it: *)
(*   JAVA_HOME      "unset", "good" (bin/java exists under it) or "bad"    *)
(*   java_on_path   shutil.which("java") finds something                   *)
(*   AURA_JDK_URL   the override URL is set                                *)
(*   os_nt          os.name == "nt"                                        *)
(*   winget_on_path shutil.which("winget") finds something                 *)
(*   jdk_zip        .tools/cache/temurin-jdk17.zip: "absent", or what the  *)
(*                  file holds: "intact" (one directory with bin/java.exe),*)
(*                  "corrupt" (not a readable zip), "nojava" (a directory  *)
(*                  without bin/java.exe), "nodir" (no directory)          *)
(*   jdk_root       .tools/jdk-17: "absent", "jdk" (holds bin/java.exe)    *)
(*                  or "nojava" (exists without bin/java.exe)              *)
(*   tmp            .tools/_tmp_jdk_extract exists                         *)
(***************************************************************************)
ZipKinds == {"intact", "corrupt", "nojava", "nodir"}

Machines ==
    [JAVA_HOME : {"unset", "good", "bad"},
     java_on_path : BOOLEAN,
     AURA_JDK_URL : BOOLEAN,
     os_nt : BOOLEAN,
     winget_on_path : BOOLEAN,
     jdk_zip : {"absent"} \cup ZipKinds,
     jdk_root : {"absent", "jdk", "nojava"},
     tmp : BOOLEAN]

\* a machine on which nothing is installed or cached
QuietMachine ==
    [JAVA_HOME |-> "unset", java_on_path |-> FALSE, AURA_JDK_URL |-> FALSE,
     os_nt |-> TRUE, winget_on_path |-> FALSE, jdk_zip |-> "absent",
     jdk_root |-> "absent", tmp |-> FALSE]

\* faulty variant: the override URL is tried after the built-in ones
url_candidates_override_last(e) ==
    <<"api.adoptium.net", "microsoft-jdk-17.0.10", "microsoft-jdk-17.0.9">>
    \o (IF e.AURA_JDK_URL THEN <<"AURA_JDK_URL">> ELSE <<>>)

\* url_candidates, after the unset override is filtered out
url_candidates(e) ==
    (IF e.AURA_JDK_URL THEN <<"AURA_JDK_URL">> ELSE <<>>)
    \o <<"api.adoptium.net", "microsoft-jdk-17.0.10", "microsoft-jdk-17.0.9">>

\* one thing ensure_jdk did to find or obtain the JDK
Did(kind, arg) == [kind |-> kind, arg |-> arg]

\* the state a call of ensure_jdk works on
World(e, jh, l, fs) ==
    [env |-> e, java_home |-> jh, trace |-> <<>>, log |-> l, failed |-> fs,
     ret |-> "running"]

Trace(w, kind, arg) == [w EXCEPT !.trace = Append(@, Did(kind, arg))]

Logged(w, level, msg, who) == [w EXCEPT !.log = log(@, level, msg, who, NoText, 0)]

Returns(w, b) == [w EXCEPT !.ret = IF b THEN "true" ELSE "false"]

\* the except clause of ensure_jdk: log and return False
Bootstrap_failed(w) == Returns(Logged(w, "ERROR", "Failed to bootstrap JDK: ", ""), FALSE)

\* faulty variant: the archive is fetched whether or not it is cached
NeedsDownload_always(e) == TRUE

\* if not jdk_zip.exists()
NeedsDownload(e) == e.jdk_zip = "absent"

\* faulty variant: the archive is unpacked whether or not jdk-17 exists
NeedsExtract_always(e) == TRUE

\* if not jdk_root.exists()
NeedsExtract(e) == e.jdk_root = "absent"

\* the download loop: the URLs before first_ok raise, the URL first_ok (if
\* any) delivers a file of kind served; stuck: a failed download left a
\* partial file that could not be unlinked
RECURSIVE Downloads(_, _, _, _, _)
Downloads(w, urls, first_ok, served, stuck) ==
    IF urls = <<>> THEN w
    ELSE LET w1 == Trace(Logged(w, "INFO", "Downloading: ", Head(urls)),
                         "download", Head(urls))
         IN  IF first_ok = 1
             THEN [w1 EXCEPT !.env.jdk_zip = served]
             ELSE Downloads(
                     [Logged(w1, "WARN", "Download failed: ", Head(urls))
                        EXCEPT !.env.jdk_zip = IF stuck THEN "corrupt" ELSE "absent"],
                     Tail(urls), first_ok - 1, served, stuck)

\* faulty variant: a winget command that exits 0 is taken as an installed JDK
Winget_unverified(w, wg, err) ==
    IF ~w.env.os_nt \/ ~w.env.winget_on_path
    THEN Returns(Logged(w, "ERROR", "Failed to bootstrap JDK: ", ""), FALSE)
    ELSE LET c  == Cmd("Install Microsoft OpenJDK 17 via winget", wg # "fail")
             w2 == [Trace(Logged(Trace(w, "which", "winget"),
                                 "WARN", "Trying winget to install JDK...", ""),
                          "run", "winget")
                      EXCEPT !.log = run_command_log(@, c, err),
                             !.failed = run_command_failed(@, c, err),
                             !.env.java_on_path = (wg = "java")]
         IN  IF wg = "fail"
             THEN Returns(Logged(w2, "ERROR", "Failed to bootstrap JDK: ", ""), FALSE)
             ELSE Returns(Logged(w2, "SUCCESS", "Installed JDK via winget", ""), TRUE)

\* the last resort after every download failed: winget, when on Windows and
\* winget is on the search path; wg is what the command does: "fail", "java"
\* (it succeeds and java is then on the search path) or "nojava" (it succeeds
\* and java is still not found); then raise last_err
Winget(w, wg, err) ==
    IF ~w.env.os_nt THEN Bootstrap_failed(w)
    ELSE LET w1 == Trace(w, "which", "winget")
         IN  IF ~w1.env.winget_on_path THEN Bootstrap_failed(w1)
             ELSE LET c  == Cmd("Install Microsoft OpenJDK 17 via winget", wg # "fail")
                      w2 == [Trace(Logged(w1, "WARN", "Trying winget to install JDK...", ""),
                                   "run", "winget")
                               EXCEPT !.log = run_command_log(@, c, err),
                                      !.failed = run_command_failed(@, c, err),
                                      !.env.java_on_path = (wg = "java")]
                  IN  IF wg = "fail" THEN Bootstrap_failed(w2)
                      ELSE LET w3 == Trace(w2, "which", "java")
                           IN  IF w3.env.java_on_path
                               THEN Returns(Logged(w3, "SUCCESS", "Installed JDK via winget", ""), TRUE)
                               ELSE Bootstrap_failed(w3)

\* from "if not jdk_root.exists()" to the end; io: extracting and moving
\* work ("ok") or raise an OSError ("fail")
Install(w, io) ==
    LET w1 == Trace(w, "stat", "jdk_root")
        w2 == IF ~NeedsExtract(w1.env) THEN w1
              ELSE LET x == [Trace(w1, "extract", "jdk_zip") EXCEPT !.env.tmp = TRUE]
                   IN  IF io = "fail" \/ x.env.jdk_zip \in {"corrupt", "nodir"}
                       THEN Bootstrap_failed(x)
                       ELSE [x EXCEPT !.env.tmp = FALSE,
                                      !.env.jdk_root =
                                          IF x.env.jdk_zip = "intact" THEN "jdk" ELSE "nojava"]
    IN  IF w2.ret = "false" THEN w2
        ELSE LET w3 == Trace(w2, "stat", "java.exe")
             IN  IF w3.env.jdk_root # "jdk" THEN Bootstrap_failed(w3)
                 ELSE Returns(Logged([w3 EXCEPT !.java_home = "jdk-17"],
                                     "SUCCESS", "Bootstrapped JDK: ", "jdk-17"), TRUE)

\* ensure_jdk; inp: what the network, the archive tools and winget do
ensure_jdk(w0, inp) ==
    LET w1 == Trace([w0 EXCEPT !.log = log_section(@, "ANDROID DEP: Java (JDK)")],
                    "env", "JAVA_HOME")
        w2 == IF w1.env.JAVA_HOME = "unset" THEN w1 ELSE Trace(w1, "stat", "java_bin")
    IN  IF w2.env.JAVA_HOME = "good"
        THEN Returns(Logged([w2 EXCEPT !.java_home = "JAVA_HOME"],
                            "SUCCESS", "Using JAVA_HOME: ", "JAVA_HOME"), TRUE)
        ELSE
        LET w3 == Trace(w2, "which", "java")
        IN  IF w3.env.java_on_path
            THEN Returns(Logged(w3, "SUCCESS", "Using java from PATH", ""), TRUE)
            ELSE
            LET w4 == Trace(Trace(w3, "env", "AURA_JDK_URL"), "stat", "jdk_zip")
            IN  IF ~NeedsDownload(w4.env) THEN Install(w4, inp.io)
                ELSE LET w5 == Downloads(w4, url_candidates(w4.env), inp.first_ok,
                                         inp.served, inp.stuck)
                     IN  IF inp.first_ok = 0
                         THEN Winget(w5, inp.wg, inp.err)
                         ELSE Install(w5, inp.io)

\* what the world outside can do during one call of ensure_jdk on machine e:
\*   first_ok  the first URL of url_candidates whose download succeeds, 0 if none
\*   served    what the downloaded file holds
\*   stuck     a failed download left a partial file that could not be unlinked
\*   io        extracting and moving work ("ok") or raise ("fail")
\*   wg        what the winget command does
\*   err       the error text of a failing command
\* Only the inputs the call consumes on e are varied.
JdkInputs(e, n) ==
    LET base == [first_ok |-> 1, served |-> "intact", stuck |-> FALSE, io |-> "ok",
                 wg |-> "fail", err |-> Text("stderr", "winget", n)]
        ios  == IF e.jdk_root = "absent" THEN {"ok", "fail"} ELSE {"ok"}
        wgs  == IF e.os_nt /\ e.winget_on_path THEN {"fail", "java", "nojava"}
                ELSE {"fail"}
    IN  IF e.JAVA_HOME = "good" \/ e.java_on_path THEN {base}
        ELSE IF e.jdk_zip # "absent" THEN {[base EXCEPT !.io = x] : x \in ios}
        ELSE {[base EXCEPT !.first_ok = k, !.served = sv, !.io = x] :
                 k \in 1..Len(url_candidates(e)), sv \in ZipKinds, x \in ios}
             \cup {[base EXCEPT !.first_ok = 0, !.stuck = st, !.wg = g] :
                      st \in BOOLEAN, g \in wgs}

\* the places ensure_jdk is called from
JdkCallSites == {"setup_android_toolchain", "ensure_android_sdk", "ensure_gradle_wrapper"}

\* most calls of ensure_jdk in one run
MaxJdkCalls == 2

\* one call of ensure_jdk, from one of its call sites
EnsureJdk ==
    /\ mode = "toolchain"
    /\ Len(jdk_calls) < MaxJdkCalls
    /\ \E site \in JdkCallSites, inp \in JdkInputs(environ, err_len) :
          LET w == ensure_jdk(World(environ, java_home, build_log, failed_steps), inp)
          IN  /\ environ' = w.env
              /\ java_home' = w.java_home
              /\ build_log' = w.log
              /\ failed_steps' = w.failed
              /\ jdk_calls' = Append(jdk_calls,
                                     [site |-> site, ret |-> w.ret, trace |-> w.trace,
                                      java_home |-> w.java_home, before |-> environ,
                                      after |-> w.env, inp |-> inp])
    /\ UNCHANGED <<release_vars, step_vars, mode, pc, selected, ordered, i, j, cur, failed_count, failed,
                   printed, log_file, exit_code, err_len, invoked, returned>>

\* a fresh AuraBuilder on some machine, about to resolve its toolchain
ToolInit ==
    /\ ReleaseIdle
    /\ StepIdle
    /\ mode = "toolchain"
    /\ environ \in {e \in Machines : e.winget_on_path => e.os_nt}
    /\ java_home = "None"
    /\ jdk_calls = <<>>
    /\ err_len \in ErrLens
    /\ pc = "start"
    /\ selected = <<>>
    /\ ordered = <<>>
    /\ i = 1
    /\ j = 1
    /\ cur = NoBeh
    /\ failed_steps = <<>>
    /\ failed_count = 0
    /\ failed = FALSE
    /\ printed = <<>>
    /\ build_log = <<>>
    /\ log_file = "none"
    /\ exit_code = -1
    /\ invoked = <<>>
    /\ returned = <<>>

ToolNext == EnsureJdk

ToolSpec == ToolInit /\ [][ToolNext]_vars

(***************************************************************************)
(* Initial state: a fresh AuraBuilder (build_log = [], failed_steps = [])  *)
(* about to run one entry point.                                           *)
(***************************************************************************)
Init ==
    /\ ReleaseIdle
    /\ StepIdle
    /\ mode \in {"run_selected_steps", "build_all", "AndroidBuilder.build",
                 "GradleSetup.setup_and_build"}
    /\ selected \in (IF mode = "run_selected_steps"
                     THEN SeqsUpTo(SelectionKeys, MaxSel) ELSE {<<>>})
    /\ pc = "start"
    /\ ordered = <<>>
    /\ i = 1
    /\ j = 1
    /\ cur = NoBeh
    /\ failed_steps = <<>>
    /\ failed_count = 0
    /\ failed = FALSE
    /\ printed = <<>>
    /\ build_log = <<>>
    /\ log_file = "none"
    /\ exit_code = -1
    /\ err_len \in ErrLens
    /\ environ = QuietMachine
    /\ java_home = "None"
    /\ jdk_calls = <<>>
    /\ invoked = <<>>
    /\ returned = <<>>

(***************************************************************************)
(* run_selected_steps: header, then the resolution of the selection.       *)
(***************************************************************************)
RunSelectedStepsBegin ==
    /\ mode = "run_selected_steps"
    /\ pc = "start"
    /\ build_log' = Header(build_log, "Aura v1.0 CI Build")
    /\ i' = 1
    /\ pc' = "resolve"
    /\ UNCHANGED <<release_vars, step_vars, environ, java_home, jdk_calls, failed, printed, err_len, mode, selected, ordered, j, cur, failed_steps, failed_count,
                   log_file, exit_code, invoked, returned>>

\* faulty variant: a key already selected is not appended again
ResolveKnown_dedup ==
    /\ pc = "resolve"
    /\ i <= Len(selected)
    /\ selected[i] \in StepKeys
    /\ ordered' = IF \E k \in 1..Len(ordered) : ordered[k] = selected[i]
                  THEN ordered ELSE Append(ordered, selected[i])
    /\ i' = i + 1
    /\ UNCHANGED <<release_vars, step_vars, environ, java_home, jdk_calls, failed, printed, err_len, mode, pc, selected, j, cur,
                   failed_steps, failed_count, build_log, log_file, exit_code,
                   invoked, returned>>

\* for key in selected: key in step_map
ResolveKnown ==
    /\ pc = "resolve"
    /\ i <= Len(selected)
    /\ selected[i] \in StepKeys
    /\ ordered' = Append(ordered, selected[i])
    /\ i' = i + 1
    /\ UNCHANGED <<release_vars, step_vars, environ, java_home, jdk_calls, failed, printed, err_len, mode, pc, selected, j, cur, failed_steps, failed_count,
                   build_log, log_file, exit_code, invoked, returned>>

\* faulty variant: an unknown key ends the resolution of the selection
ResolveUnknown_abort ==
    /\ pc = "resolve"
    /\ i <= Len(selected)
    /\ selected[i] \notin StepKeys
    /\ build_log' = log(build_log, "ERROR", "Unknown step: ", selected[i], NoText, 0)
    /\ failed_steps' = _step_failed(failed_steps, "args",
                           Text("Unknown step: ", selected[i], 14 + StrLen(selected[i])))
    /\ i' = Len(selected) + 1
    /\ UNCHANGED <<release_vars, step_vars, environ, java_home, jdk_calls, failed, printed, err_len, mode, pc, selected, ordered, j, cur,
                   failed_count, log_file, exit_code, invoked, returned>>

\* for key in selected: key not in step_map
ResolveUnknown ==
    /\ pc = "resolve"
    /\ i <= Len(selected)
    /\ selected[i] \notin StepKeys
    /\ build_log' = log(build_log, "ERROR", "Unknown step: ", selected[i], NoText, 0)
    /\ failed_steps' = _step_failed(failed_steps, "args",
                           Text("Unknown step: ", selected[i], 14 + StrLen(selected[i])))
    /\ i' = i + 1
    /\ UNCHANGED <<release_vars, step_vars, environ, java_home, jdk_calls, failed, printed, err_len, mode, pc, selected, ordered, j, cur, failed_count, log_file,
                   exit_code, invoked, returned>>

\* end of the resolution loop; failed_count = 0
ResolveDone ==
    /\ pc = "resolve"
    /\ i > Len(selected)
    /\ failed_count' = 0
    /\ j' = 1
    /\ pc' = "loop"
    /\ UNCHANGED <<release_vars, step_vars, environ, java_home, jdk_calls, failed, printed, err_len, mode, selected, ordered, i, cur, failed_steps, build_log,
                   log_file, exit_code, invoked, returned>>

(***************************************************************************)
(* build_all: header and the fixed step list.                              *)
(***************************************************************************)
BuildAllBegin ==
    /\ mode = "build_all"
    /\ pc = "start"
    /\ build_log' = Header(build_log, "Aura v1.0 Complete Release Build")
    /\ ordered' = BuildAllSteps
    /\ failed_count' = 0
    /\ j' = 1
    /\ pc' = "loop"
    /\ UNCHANGED <<release_vars, step_vars, environ, java_home, jdk_calls, failed, printed, err_len, mode, selected, i, cur, failed_steps, log_file, exit_code,
                   invoked, returned>>

(***************************************************************************)
(* The step loop of run_selected_steps and build_all:                      *)
(*     for step_name, step_func in ordered:                                *)
(*         try:                                                            *)
(*             if not step_func(): log; record; failed_count += 1          *)
(*         except Exception as e: log; record; failed_count += 1           *)
(***************************************************************************)
InAuraBuilder == mode \in {"run_selected_steps", "build_all"}

\* step_func() is called
StepCall ==
    /\ InAuraBuilder
    /\ pc = "loop"
    /\ j <= Len(ordered)
    /\ \E b \in StepBehaviours(ordered[j]) :
          cur' = [ret |-> b.ret, cmds |-> b.cmds,
                  err |-> Text(IF b.ret = "raise" THEN "exception" ELSE "stderr",
                               step_map(ordered[j]), err_len)]
    /\ invoked' = Append(invoked, ordered[j])
    /\ pc' = "running"
    /\ UNCHANGED <<release_vars, step_vars, environ, java_home, jdk_calls, failed, printed, err_len, mode, selected, ordered, i, j, failed_steps, failed_count,
                   build_log, log_file, exit_code, returned>>

\* the step action runs: its section header and its run_command calls
StepBody ==
    /\ InAuraBuilder
    /\ pc = "running"
    /\ build_log' = RunCommandsLog(log_section(build_log, StepSection(ordered[j])),
                                   cur.cmds, cur.err)
    /\ failed_steps' = RunCommandsFailed(failed_steps, cur.cmds, cur.err)
    /\ pc' = "returning"
    /\ UNCHANGED <<release_vars, step_vars, environ, java_home, jdk_calls, failed, printed, err_len, mode, selected, ordered, i, j, cur, failed_count, log_file,
                   exit_code, invoked, returned>>

\* where the loop goes after the step at index k, whatever its outcome
NextStep(k) == k + 1

\* step_func() returned True
StepReturnedTrue ==
    /\ InAuraBuilder
    /\ pc = "returning"
    /\ cur.ret = "true"
    /\ returned' = Append(returned, "true")
    /\ j' = NextStep(j)
    /\ cur' = NoBeh
    /\ pc' = "loop"
    /\ UNCHANGED <<release_vars, step_vars, environ, java_home, jdk_calls, failed, printed, err_len, mode, selected, ordered, i, failed_steps, failed_count,
                   build_log, log_file, exit_code, invoked>>

\* "Step returned False", 19 characters
StepReturnedFalseText == Text("Step returned False", "", 19)

\* faulty variant: a False return ends the loop
StepReturnedFalse_break ==
    /\ InAuraBuilder
    /\ pc = "returning"
    /\ cur.ret = "false"
    /\ build_log' = log(build_log, "ERROR", "failed", step_map(ordered[j]), NoText, 0)
    /\ failed_steps' = _step_failed(failed_steps, step_map(ordered[j]),
                                    StepReturnedFalseText)
    /\ failed_count' = failed_count + 1
    /\ returned' = Append(returned, "false")
    /\ j' = Len(ordered) + 1
    /\ cur' = NoBeh
    /\ pc' = "loop"
    /\ UNCHANGED <<release_vars, step_vars, environ, java_home, jdk_calls, failed, printed, err_len, mode, selected, ordered, i, log_file,
                   exit_code, invoked>>

\* step_func() returned False
StepReturnedFalse ==
    /\ InAuraBuilder
    /\ pc = "returning"
    /\ cur.ret = "false"
    /\ build_log' = log(build_log, "ERROR", "failed", step_map(ordered[j]), NoText, 0)
    /\ failed_steps' = _step_failed(failed_steps, step_map(ordered[j]),
                                    StepReturnedFalseText)
    /\ failed_count' = failed_count + 1
    /\ returned' = Append(returned, "false")
    /\ j' = NextStep(j)
    /\ cur' = NoBeh
    /\ pc' = "loop"
    /\ UNCHANGED <<release_vars, step_vars, environ, java_home, jdk_calls, failed, printed, err_len, mode, selected, ordered, i, log_file, exit_code, invoked>>

\* faulty variant: the loop has no except clause, the exception ends the run
StepRaised_propagates ==
    /\ InAuraBuilder
    /\ pc = "returning"
    /\ cur.ret = "raise"
    /\ returned' = Append(returned, "raise")
    /\ pc' = "crashed"
    /\ UNCHANGED <<release_vars, step_vars, environ, java_home, jdk_calls, failed, printed, err_len, mode, selected, ordered, i, j, cur,
                   failed_steps, failed_count, build_log, log_file, exit_code,
                   invoked>>

\* step_func() raised an Exception: the except clause of the loop
StepRaised ==
    /\ InAuraBuilder
    /\ pc = "returning"
    /\ cur.ret = "raise"
    /\ build_log' = log(build_log, "ERROR", "raised exception: ",
                        step_map(ordered[j]), cur.err, 0)
    /\ failed_steps' = _step_failed(failed_steps, step_map(ordered[j]), cur.err)
    /\ failed_count' = failed_count + 1
    /\ returned' = Append(returned, "raise")
    /\ j' = NextStep(j)
    /\ cur' = NoBeh
    /\ pc' = "loop"
    /\ UNCHANGED <<release_vars, step_vars, environ, java_home, jdk_calls, failed, printed, err_len, mode, selected, ordered, i, log_file, exit_code, invoked>>

\* self.print_summary(), after the loop
PrintSummary ==
    /\ InAuraBuilder
    /\ pc = "loop"
    /\ j > Len(ordered)
    /\ \E dist_exists \in BOOLEAN :
          build_log' = print_summary(build_log, failed_steps, dist_exists)
    /\ pc' = "save"
    /\ UNCHANGED <<release_vars, step_vars, environ, java_home, jdk_calls, failed, printed, err_len, mode, selected, ordered, i, j, cur, failed_steps, failed_count,
                   log_file, exit_code, invoked, returned>>

\* self.save_build_log(): the log is written, then "Build log saved" is logged
SaveBuildLog ==
    /\ InAuraBuilder
    /\ pc = "save"
    /\ log_file' = build_log
    /\ build_log' = log(build_log, "INFO", "Build log saved: ", "", NoText, 0)
    /\ pc' = "return"
    /\ UNCHANGED <<release_vars, step_vars, environ, java_home, jdk_calls, failed, printed, err_len, mode, selected, ordered, i, j, cur, failed_steps, failed_count,
                   exit_code, invoked, returned>>

\* self.save_build_log(): open(log_file, "w") raises (the file is locked or the
\* directory is read-only); nothing catches it
SaveBuildLogRaises ==
    /\ InAuraBuilder
    /\ pc = "save"
    /\ pc' = "crashed"
    /\ UNCHANGED <<release_vars, step_vars, environ, java_home, jdk_calls, failed, printed, err_len, mode, selected, ordered, i, j, cur, failed_steps, failed_count,
                   build_log, log_file, exit_code, invoked, returned>>

\* faulty variant: the number of failures is returned as the status
ExitStatus_count(n) == n

\* return 0 if failed_count == 0 else 1
ExitStatus(n) == IF n = 0 THEN 0 ELSE 1

Return ==
    /\ InAuraBuilder
    /\ pc = "return"
    /\ exit_code' = ExitStatus(failed_count)
    /\ pc' = "done"
    /\ UNCHANGED <<release_vars, step_vars, environ, java_home, jdk_calls, failed, printed, err_len, mode, selected, ordered, i, j, cur, failed_steps, failed_count,
                   build_log, log_file, invoked, returned>>

(***************************************************************************)
(* AndroidBuilder.build and GradleSetup.setup_and_build: a fixed step list *)
(* run in order; a failure of "Build APK" breaks out of the loop.  The     *)
(* loops call the steps as opaque callables and handle a True return, a    *)
(* False return and a raised Exception.                                    *)
(***************************************************************************)
InBuilder == mode \in {"AndroidBuilder.build", "GradleSetup.setup_and_build"}

AndroidBuilderSteps ==
    <<"Download Gradle", "Extract Gradle", "Verify Gradle", "Build APK",
      "Copy to Distribution">>

GradleSetupSteps ==
    <<"Download Gradle", "Extract Gradle", "Generate Wrapper", "Verify Wrapper",
      "Build APK", "Copy to Distribution">>

BuilderSteps(m) ==
    IF m = "AndroidBuilder.build" THEN AndroidBuilderSteps ELSE GradleSetupSteps

\* faulty variant: no step is fatal
Breaks_never(step_name) == FALSE

\* faulty variant: every step is fatal
Breaks_always(step_name) == TRUE

\* if step_name == "Build APK": break
Breaks(step_name) == step_name = "Build APK"

\* the banner both builders print first
BuilderBegin ==
    /\ InBuilder
    /\ pc = "start"
    /\ printed' = printed \o <<Entry("INFO", "=====", "", NoText, 0),
                               Entry("INFO", "banner", mode, NoText, 0),
                               Entry("INFO", "=====", "", NoText, 0)>>
                          \o (IF mode = "AndroidBuilder.build"
                              THEN <<Entry("INFO", "", "", NoText, 0)>> ELSE <<>>)
    /\ ordered' = BuilderSteps(mode)
    /\ failed' = FALSE
    /\ failed_count' = 0
    /\ j' = 1
    /\ pc' = "loop"
    /\ UNCHANGED <<release_vars, step_vars, environ, java_home, jdk_calls, err_len, mode, selected, i, cur, failed_steps, build_log,
                   log_file, exit_code, invoked, returned>>

\* the loop prints the step's header and calls step_func(), which prints its
\* own lines
BuilderStepCall ==
    /\ InBuilder
    /\ pc = "loop"
    /\ j <= Len(ordered)
    /\ printed' = printed \o <<Entry("INFO", "", "", NoText, 0),
                               Entry("INFO", "step", ordered[j], NoText, 0),
                               Entry("INFO", "-----", "", NoText, 0),
                               Entry("INFO", "output of", ordered[j], NoText, 0)>>
    /\ \E r \in {"true", "false", "raise"} :
          cur' = [ret |-> r, cmds |-> <<>>,
                  err |-> IF r = "raise" THEN Text("exception", ordered[j], err_len)
                          ELSE NoText]
    /\ invoked' = Append(invoked, ordered[j])
    /\ pc' = "returning"
    /\ UNCHANGED <<release_vars, step_vars, environ, java_home, jdk_calls, err_len, mode, selected, ordered, i, j, failed_steps,
                   failed_count, failed, build_log, log_file, exit_code, returned>>

BuilderStepTrue ==
    /\ InBuilder
    /\ pc = "returning"
    /\ cur.ret = "true"
    /\ returned' = Append(returned, "true")
    /\ j' = j + 1
    /\ cur' = NoBeh
    /\ pc' = "loop"
    /\ UNCHANGED <<release_vars, step_vars, environ, java_home, jdk_calls, err_len, mode, selected, ordered, i, failed_steps, failed_count,
                   failed, printed, build_log, log_file, exit_code, invoked>>

\* faulty variant: the failure is counted but no line is printed about it
BuilderFailure_silent(line) ==
    /\ UNCHANGED printed
    /\ IF mode = "AndroidBuilder.build"
       THEN failed' = TRUE /\ UNCHANGED failed_count
       ELSE failed_count' = failed_count + 1 /\ UNCHANGED failed
    /\ IF Breaks(ordered[j])
       THEN pc' = "summary" /\ UNCHANGED j
       ELSE pc' = "loop" /\ j' = j + 1
    /\ cur' = NoBeh

\* what a failed step does to the loop: the failure is noted, and the loop
\* breaks or goes on
BuilderFailure(line) ==
    /\ printed' = Append(printed, line)
    /\ IF mode = "AndroidBuilder.build"
       THEN failed' = TRUE /\ UNCHANGED failed_count
       ELSE failed_count' = failed_count + 1 /\ UNCHANGED failed
    /\ IF Breaks(ordered[j])
       THEN pc' = "summary" /\ UNCHANGED j
       ELSE pc' = "loop" /\ j' = j + 1
    /\ cur' = NoBeh

BuilderStepFalse ==
    /\ InBuilder
    /\ pc = "returning"
    /\ cur.ret = "false"
    /\ BuilderFailure(Entry("ERROR", "failed", ordered[j], NoText, 0))
    /\ returned' = Append(returned, "false")
    /\ UNCHANGED <<release_vars, step_vars, environ, java_home, jdk_calls, err_len, mode, selected, ordered, i, failed_steps, build_log,
                   log_file, exit_code, invoked>>

BuilderStepRaised ==
    /\ InBuilder
    /\ pc = "returning"
    /\ cur.ret = "raise"
    /\ BuilderFailure(Entry("ERROR", "raised exception: ", ordered[j], cur.err, 0))
    /\ returned' = Append(returned, "raise")
    /\ UNCHANGED <<release_vars, step_vars, environ, java_home, jdk_calls, err_len, mode, selected, ordered, i, failed_steps, build_log,
                   log_file, exit_code, invoked>>

\* has the builder seen a failure
BuilderFailed == IF mode = "AndroidBuilder.build" THEN failed ELSE failed_count # 0

\* the lines of BUILD SUMMARY; dist_apk: dist-release/android/app-debug.apk exists
BuilderSummaryLines(dist_apk) ==
    <<Entry("INFO", "", "", NoText, 0),
      Entry("INFO", "=====", "", NoText, 0),
      Entry("INFO", "BUILD SUMMARY", "", NoText, 0),
      Entry("INFO", "=====", "", NoText, 0)>>
    \o (IF ~BuilderFailed
        THEN <<Entry("SUCCESS", "All steps completed successfully!", "", NoText, 0)>>
             \o (IF mode = "GradleSetup.setup_and_build" \/ dist_apk
                 THEN <<Entry("SUCCESS", "Release package", "", NoText, 0)>>
                 ELSE <<>>)
        ELSE IF mode = "AndroidBuilder.build"
        THEN <<Entry("WARN", "One or more steps failed", "", NoText, 0),
               Entry("WARN", "See output above for details", "", NoText, 0)>>
        ELSE <<Entry("WARN", "step(s) failed", "", NoText, failed_count)>>)

\* after the loop (or the break): the summary and the return value
BuilderSummary ==
    /\ InBuilder
    /\ \/ pc = "loop" /\ j > Len(ordered)
       \/ pc = "summary"
    /\ \E dist_apk \in BOOLEAN :
          printed' = printed \o BuilderSummaryLines(dist_apk)
    /\ exit_code' = IF BuilderFailed THEN 1 ELSE 0
    /\ pc' = "done"
    /\ UNCHANGED <<release_vars, step_vars, environ, java_home, jdk_calls, err_len, mode, selected, ordered, i, j, cur, failed_steps,
                   failed_count, failed, build_log, log_file, invoked, returned>>

Next ==
    \/ RunSelectedStepsBegin
    \/ ResolveKnown
    \/ ResolveUnknown
    \/ ResolveDone
    \/ BuildAllBegin
    \/ StepCall
    \/ StepBody
    \/ StepReturnedTrue
    \/ StepReturnedFalse
    \/ StepRaised
    \/ PrintSummary
    \/ SaveBuildLog
    \/ SaveBuildLogRaises
    \/ Return
    \/ BuilderBegin
    \/ BuilderStepCall
    \/ BuilderStepTrue
    \/ BuilderStepFalse
    \/ BuilderStepRaised
    \/ BuilderSummary

Spec == Init /\ [][Next]_vars

(***************************************************************************)
(* Vocabulary of the properties.                                           *)
(***************************************************************************)
\* number of indices of sequence q whose element satisfies Test
CountIn(q, Test(_)) == Cardinality({k \in 1..Len(q) : Test(q[k])})

\* the selection with the keys that are not in step_map removed
KnownOf(sel) == SelectSeq(sel, LAMBDA key : key \in StepKeys)

\* the steps of ordered whose action ended in a False return or an exception
FailedIdx == {k \in 1..Len(returned) : returned[k] # "true"}

\* the entry point has got past its step loop and printed its summary
AfterSummary == pc \in {"save", "return", "done", "crashed"}

\* the lines of the summary that list a failure of the step called name
SummaryLists(name) ==
    \E k \in 1..Len(build_log) :
        /\ build_log[k].msg = "  - "
        /\ build_log[k].level = "WARN"
        /\ build_log[k].who = name

\* "Build APK" is in the builder's list and its action has failed
FatalIdx == CHOOSE k \in 1..Len(ordered) : ordered[k] = "Build APK"

FatalFailed ==
    /\ InBuilder
    /\ \E k \in 1..Len(ordered) : ordered[k] = "Build APK"
    /\ Len(returned) >= FatalIdx
    /\ returned[FatalIdx] # "true"

\* the builder has printed a line about the step called name
PrintedAbout(name) == \E k \in 1..Len(printed) : printed[k].who = name

\* the builder has printed that the step called name was skipped
PrintedSkipped(name) ==
    \E k \in 1..Len(printed) :
        printed[k].who = name /\ printed[k].msg \in {"skipped", "not run"}

(***************************************************************************)
(* C1.  run_selected_steps returns 0 only if no failure was recorded; any  *)
(* failure, an unknown step name included, gives a nonzero exit status.    *)
(* The code records the unknown key in failed_steps but counts it nowhere: *)
(* the selection <<"bogus">> returns 0.                                    *)
(***************************************************************************)
C1_ExitZeroOnlyWithoutFailure ==
    (mode = "run_selected_steps" /\ pc = "done") =>
        /\ (exit_code = 0 => failed_steps = <<>>)
        /\ ((\E k \in 1..Len(selected) : selected[k] \notin StepKeys) => exit_code # 0)

C3_FailureDoesNotStopLaterSteps ==
    (InAuraBuilder /\ AfterSummary) =>
        /\ invoked = ordered
        /\ Len(returned) = Len(ordered)
        /\ \A k \in FailedIdx : SummaryLists(step_map(ordered[k]))

C3_Witness ==
    /\ InAuraBuilder
    /\ pc = "done"
    /\ Len(ordered) >= 2
    /\ returned[1] = "false"
    /\ returned[2] = "true"

(***************************************************************************)
(* C4.  An exception raised by a step action is caught by the loop,        *)
(* recorded as a failure of that step like a False return (one entry under *)
(* the step's name, failed_count incremented), the loop goes on, and the   *)
(* entry point still returns an exit status: the only exception that ends  *)
(* the entry point comes from save_build_log, after every step has run.    *)
(***************************************************************************)
\* the entries of failed_steps the loop wrote for its steps, oldest first
StepEntries ==
    SelectSeq(failed_steps,
              LAMBDA e : e.step \in {step_map(key) : key \in StepKeys})

\* the entries the loop owes: one per failed step action, oldest first
RECURSIVE OwedEntries(_)
OwedEntries(k) ==
    IF k = 0 THEN <<>>
    ELSE LET before == OwedEntries(k - 1)
         IN  IF returned[k] = "true" THEN before
             ELSE Append(before,
                         [step |-> step_map(ordered[k]),
                          text |-> IF returned[k] = "raise" THEN "exception"
                                   ELSE "Step returned False"])

EntryHeads(q) == [k \in 1..Len(q) |-> [step |-> q[k].step, text |-> q[k].error.text]]

C4_StepFaultsAreCaught ==
    (InAuraBuilder /\ pc \notin {"start", "resolve"}) =>
        /\ (pc = "crashed" => Len(returned) = Len(ordered))
        /\ EntryHeads(StepEntries) = OwedEntries(Len(returned))
        /\ failed_count = Cardinality(FailedIdx)
        /\ (pc = "done" => exit_code = (IF FailedIdx = {} THEN 0 ELSE 1))

C4_Witness ==
    /\ InAuraBuilder
    /\ pc = "done"
    /\ Len(returned) >= 2
    /\ returned[1] = "raise"
    /\ exit_code = 1

(***************************************************************************)
(* C5.  The step actions run_selected_steps invokes are the selection with *)
(* the unknown keys removed, in the order given (repeated keys run again); *)
(* a step is invoked only when every earlier one has returned.             *)
(***************************************************************************)
IsPrefix(p, q) == Len(p) <= Len(q) /\ \A k \in 1..Len(p) : p[k] = q[k]

C5_StepsRunInSelectionOrder ==
    mode = "run_selected_steps" =>
        /\ IsPrefix(invoked, KnownOf(selected))
        /\ (AfterSummary => invoked = KnownOf(selected))
        /\ Len(returned) = Len(invoked) - (IF pc \in {"running", "returning"} THEN 1 ELSE 0)

C5_Witness ==
    /\ mode = "run_selected_steps"
    /\ pc = "done"
    /\ Len(selected) = 3
    /\ selected[1] \in StepKeys
    /\ selected[2] \notin StepKeys
    /\ selected[3] = selected[1]
    /\ Len(invoked) = 2

(***************************************************************************)
(* C6.  At the end of a run an outcome is recorded for every scheduled     *)
(* step: succeeded, failed and not run (after a fatal failure) each have a *)
(* record, "not run" being distinct from "failed".  Even counting any log  *)
(* line about a step as its record, this fails for the steps not run: the  *)
(* builders print and keep nothing about them.  What holds: a step has a   *)
(* record exactly when its action was invoked, and a failure record        *)
(* exactly when it failed; a step that was not run has no record at all.   *)
(***************************************************************************)
\* something in the log or in failed_steps is about the k-th scheduled step
Recorded(k) ==
    IF InBuilder
    THEN PrintedAbout(ordered[k])
    ELSE \/ \E n \in 1..Len(build_log) :
               build_log[n].msg = "section" /\ build_log[n].who = StepSection(ordered[k])
         \/ \E n \in 1..Len(failed_steps) : failed_steps[n].step = step_map(ordered[k])

\* the failures recorded under the step name: entries of failed_steps, or the
\* builder's printed ERROR lines
FailureRecords(name) ==
    IF InBuilder
    THEN CountIn(printed, LAMBDA e : e.level = "ERROR" /\ e.who = name)
    ELSE CountIn(failed_steps, LAMBDA e : e.step = name)

StepNameAt(k) == IF InBuilder THEN ordered[k] ELSE step_map(ordered[k])

Occurrences(q, x) == CountIn(q, LAMBDA y : y = x)

UnknownRecords(key) ==
    CountIn(failed_steps,
            LAMBDA e : e.step = "args" /\ e.error.text = "Unknown step: "
                                       /\ e.error.arg = key)

C7_UnknownKeyRecordedAndSkipped ==
    (mode = "run_selected_steps" /\ pc \notin {"start", "resolve"}) =>
        /\ \A k \in 1..Len(selected) :
              selected[k] \notin StepKeys =>
                  UnknownRecords(selected[k]) = Occurrences(selected, selected[k])
        /\ CountIn(failed_steps, LAMBDA e : e.step = "args")
              = CountIn(selected, LAMBDA key : key \notin StepKeys)
        /\ ordered = KnownOf(selected)
        /\ (AfterSummary => Len(returned) = Len(KnownOf(selected)))

C7_Witness ==
    /\ mode = "run_selected_steps"
    /\ pc = "done"
    /\ Len(selected) >= 2
    /\ selected[1] \notin StepKeys
    /\ selected[2] \in StepKeys
    /\ UnknownRecords(selected[1]) = 1
    /\ Len(returned) >= 1

(***************************************************************************)
(* C8.  Exit status: 0 when all selected steps succeeded, 1 when a step    *)
(* failed, 2 when the selection is invalid (an unknown key and no valid    *)
(* step).  The code has no status 2: run_selected_steps returns 1 exactly  *)
(* when a step it ran failed, and 0 otherwise.                             *)
(***************************************************************************)
HasUnknownKey == \E k \in 1..Len(selected) : selected[k] \notin StepKeys

ReportedFailures ==
    IF \E k \in 1..Len(build_log) : build_log[k].msg = "Failed steps: "
    THEN build_log[CHOOSE k \in 1..Len(build_log) : build_log[k].msg = "Failed steps: "].n
    ELSE 0

ListedFailures == CountIn(build_log, LAMBDA e : e.msg = "  - ")

C9_SummaryCountsFailedSteps ==
    (InAuraBuilder /\ AfterSummary) =>
        LET n == Cardinality(FailedIdx)
                 + CountIn(selected, LAMBDA key : key \notin StepKeys)
        IN  /\ ReportedFailures = n
            /\ ListedFailures = n
            /\ \A k \in 1..Len(build_log) :
                  build_log[k].msg = "  - " =>
                      /\ build_log[k].who \in {step_map(key) : key \in StepKeys} \cup {"args"}
                      /\ build_log[k].err.len <= ErrLimit

(***************************************************************************)
(* C10.  A tool is resolved at most once per run: after the first          *)
(* successful ensure_jdk, every later call returns the recorded result and *)
(* performs zero further attempts (no probe of the environment or the      *)
(* search path, no download, no extraction, no package-manager command).   *)
(* ensure_jdk keeps no record: every call starts again at JAVA_HOME.  What *)
(* holds: after the first success every later call succeeds with the same  *)
(* java_home and only probes; it downloads, extracts and installs nothing. *)
(***************************************************************************)
Probes == {"env", "which", "stat"}

\* the first call of ensure_jdk that returned True is before call n
ResolvedBefore(n) == \E m \in 1..(n - 1) : jdk_calls[m].ret = "true"

FirstResolved == CHOOSE m \in 1..Len(jdk_calls) :
                    /\ jdk_calls[m].ret = "true"
                    /\ \A k \in 1..(m - 1) : jdk_calls[k].ret # "true"

MaxFiles == 3

\* most entries in an archive handed to repack_zip_deterministic
MaxEntries == 3

\* info.date_time = (1980, 1, 1, 0, 0, 0)
DosEpoch == <<1980, 1, 1, 0, 0, 0>>

\* perm = 0o755 if is_exe else 0o644
PermExe == 493

PermDefault == 420

\* the code point of "/"
Slash == 47

\* str < str: lexicographic by code point, a proper prefix first
RECURSIVE StrLess(_, _)
StrLess(a, b) ==
    IF a = <<>> THEN b # <<>>
    ELSE IF b = <<>> THEN FALSE
    ELSE IF Head(a) = Head(b) THEN StrLess(Tail(a), Tail(b))
    ELSE Head(a) < Head(b)

\* PurePath.as_posix of a relative path: its parts joined by "/"
RECURSIVE as_posix(_)
as_posix(parts) ==
    IF Len(parts) = 1 THEN parts[1]
    ELSE parts[1] \o <<Slash>> \o as_posix(Tail(parts))

\* "AuraSDK": SDK_STAGING relative to DIST_DIR
SDK_STAGING == <<65, 117, 114, 97, 83, 68, 75>>

\* the files a staged tree is drawn from, by their parts under SDK_STAGING:
\* a.txt, B.txt, sub/c.bin, Sub/d.bin
StagedPaths ==
    {<<<<97, 46, 116, 120, 116>>>>,
     <<<<66, 46, 116, 120, 116>>>>,
     <<<<115, 117, 98>>, <<99, 46, 98, 105, 110>>>>,
     <<<<83, 117, 98>>, <<100, 46, 98, 105, 110>>>>}

\* p.relative_to(DIST_DIR).as_posix()
rel(f) == as_posix(<<SDK_STAGING>> \o f.parts)

\* list.sort(key=...) on a list of <<key, item>> pairs: ascending by key,
\* items of equal key in their former order
RECURSIVE InsertLast(_, _)
InsertLast(p, s) ==
    IF s = <<>> THEN <<p>>
    ELSE IF StrLess(p[1], Head(s)[1]) THEN <<p>> \o s
    ELSE <<Head(s)>> \o InsertLast(p, Tail(s))

RECURSIVE sort(_)
sort(s) ==
    IF s = <<>> THEN <<>>
    ELSE InsertLast(s[Len(s)], sort(SubSeq(s, 1, Len(s) - 1)))

\* faulty variant: the list is left in the order it was enumerated
files_sort_none(files) == files

\* files.sort(key=lambda p: p.relative_to(DIST_DIR).as_posix())
files_sort(files) ==
    LET keyed == [k \in 1..Len(files) |-> <<rel(files[k]), files[k]>>]
        done  == sort(keyed)
    IN  [k \in 1..Len(files) |-> done[k][2]]

\* faulty variant: the entry carries the file's modification time
date_time_mtime(src) == src.mtime

\* the timestamp zip_write_deterministic gives an entry
date_time(src) == DosEpoch

\* info.external_attr = (perm & 0xFFFF) << 16
external_attr(perm) == (perm % 65536) * 65536

\* zip_write_deterministic: the entry written for file src under arcname
zip_write_deterministic(z, src, arcname) ==
    Append(z, [filename |-> arcname,
               data |-> src.data,
               date_time |-> date_time(src),
               external_attr |-> external_attr(IF src.exe THEN PermExe ELSE PermDefault)])

RECURSIVE WriteAll(_, _)
WriteAll(z, files) ==
    IF files = <<>> THEN z
    ELSE WriteAll(zip_write_deterministic(z, Head(files), rel(Head(files))), Tail(files))

\* main, lines 430-435: the archive written for the tree as rglob lists it
Package(enumerated) == WriteAll(<<>>, files_sort(enumerated))

\* ZipInfo.is_dir: the name ends with "/"
is_dir(info) == info.filename # <<>> /\ info.filename[Len(info.filename)] = Slash

\* ZipFile.read(name): the data of the last entry of that name
read(zin, name) ==
    LET last == CHOOSE k \in 1..Len(zin) :
                    /\ zin[k].filename = name
                    /\ \A m \in (k + 1)..Len(zin) : zin[m].filename # name
    IN  zin[last].data

\* faulty variant: the entries are written in the reverse of their order
infos_sort_reversed(infos) == [k \in 1..Len(infos) |-> infos[Len(infos) + 1 - k]]

\* infos.sort(key=lambda i: i.filename)
infos_sort(infos) ==
    LET keyed == [k \in 1..Len(infos) |-> <<infos[k].filename, infos[k]>>]
        done  == sort(keyed)
    IN  [k \in 1..Len(infos) |-> done[k][2]]

RECURSIVE RepackAll(_, _, _)
RepackAll(zout, zin, infos) ==
    IF infos = <<>> THEN zout
    ELSE LET info == Head(infos)
         IN  RepackAll(IF is_dir(info) THEN zout
                       ELSE Append(zout, [filename |-> info.filename,
                                          data |-> read(zin, info.filename),
                                          date_time |-> DosEpoch,
                                          external_attr |-> info.external_attr]),
                       zin, Tail(infos))

\* repack_zip_deterministic: the archive written to dst_zip
repack_zip_deterministic(zin) == RepackAll(<<>>, zin, infos_sort(zin))

\* the orders in which rglob can list the files of set S
Enumerations(S) ==
    {q \in [1..Cardinality(S) -> S] : \A a, b \in DOMAIN q : a # b => q[a] # q[b]}

\* one finding of the staged tree with paths S: the order rglob lists it in,
\* the files' modification times, their executable bits, and the clock of
\* the machine (a year after the files were last modified)
Stagings(S) ==
    {[files |-> [k \in DOMAIN q |->
                    [parts |-> q[k], data |-> <<"bytes of", q[k]>>,
                     mtime |-> <<t, 1, 1, 0, 0, 0>>, exe |-> q[k] \in X]],
      clock |-> <<t + 1, 1, 1, 0, 0, 0>>] :
        q \in Enumerations(S), t \in {2024, 2025}, X \in SUBSET S}

\* the trees the packager is run on
StagedTrees == {S \in SUBSET StagedPaths : Cardinality(S) \in 1..MaxFiles}

\* names of archive entries: a, B, and the directory entry d/
EntryNames == {<<97>>, <<66>>, <<100, Slash>>}

\* the entries of an archive as some other tool wrote it
ZipInfos ==
    [filename : EntryNames, data : {"x", "y"},
     date_time : {DosEpoch, <<2025, 6, 1, 12, 0, 0>>},
     external_attr : {external_attr(PermExe)}]
    \cup [filename : {<<97>>}, data : {"x"}, date_time : {DosEpoch},
          external_attr : {external_attr(PermDefault)}]

\* every variable of the build scripts' model, idle
BuildIdle ==
    /\ mode = "none"
    /\ pc = "none"
    /\ selected = <<>>
    /\ ordered = <<>>
    /\ i = 1
    /\ j = 1
    /\ cur = NoBeh
    /\ failed_steps = <<>>
    /\ failed_count = 0
    /\ failed = FALSE
    /\ printed = <<>>
    /\ build_log = <<>>
    /\ log_file = "none"
    /\ exit_code = -1
    /\ err_len = ErrLimit
    /\ environ = QuietMachine
    /\ java_home = "None"
    /\ jdk_calls = <<>>
    /\ invoked = <<>>
    /\ returned = <<>>

build_vars ==
    <<mode, pc, selected, ordered, i, j, cur, failed_steps, failed_count, failed,
      printed, build_log, log_file, exit_code, err_len, environ, java_home,
      jdk_calls, invoked, returned>>

(***************************************************************************)
(* release.py: main from the cleaning of the staging tree to the SDK zip   *)
(* (lines 344-437), with safe_replace_existing (lines 25-50).  In this     *)
(* part of the model                                                       *)
(*   staged   the entries under dist/AuraSDK: files and directories        *)
(*   dist     out_zip: "absent", or what the file at the canonical path    *)
(*            holds ("old", "new"); olds: the numbers i for which          *)
(*            <out_zip>.old<i> exists, with what the file holds            *)
(*   renv     the machine: leftovers and dist, what main finds under       *)
(*            dist/AuraSDK and in dist/; the sources to stage; and what    *)
(*            the file system answers: rmtree ("ok" or "raise"), unlink    *)
(*            ("ok", "PermissionError" or another "OSError"), and renames, *)
(*            the numbers i for which path.rename(<out_zip>.old<i>) works  *)
(***************************************************************************)
\* range(1, 1000) ends before this number
OldLimit == 1000

\* an entry under dist/AuraSDK; for a directory file is FALSE
StagedEntry(parts, data, file) ==
    [parts |-> parts, data |-> data, mtime |-> <<2025, 1, 1, 0, 0, 0>>, exe |-> FALSE,
     file |-> file]

\* "old.txt" and the directory "empty"
Old_txt == <<111, 108, 100, 46, 116, 120, 116>>
Empty_dir == <<101, 109, 112, 116, 121>>

\* what an earlier run can have left under dist/AuraSDK: nothing, a file
\* this run does not stage, an older copy of a.txt
Leftovers ==
    SUBSET {StagedEntry(<<Old_txt>>, "stale", TRUE),
            StagedEntry(<<<<97, 46, 116, 120, 116>>>>, "stale", TRUE)}

\* what this run stages: files of the SDK, and with them an empty directory
Sources ==
    {{StagedEntry(p, <<"bytes of", p>>, TRUE) : p \in S} \cup D :
        S \in StagedTrees, D \in {{}, {StagedEntry(<<Empty_dir>>, "", FALSE)}}}

\* faulty variant: the staging tree is left as it was found
rmtree_keep(tree) == tree

\* shutil.rmtree(SDK_STAGING)
rmtree(tree) == {}

\* the copies into the staging tree (lines 349-425): an entry copied takes
\* the place of an entry of the same path
copy_into(tree, sources) ==
    {e \in tree : \A s \in sources : s.parts # e.parts} \cup sources

\* faulty variant: a file that cannot be unlinked ends the run
first_rename_none(renames) == OldLimit

\* for i in range(1, 1000): try: path.rename(alt); return -- the first i
\* whose rename works, OldLimit if none does
first_rename(renames) ==
    IF \E k \in 1..(OldLimit - 1) : k \in renames
    THEN CHOOSE k \in 1..(OldLimit - 1) :
            k \in renames /\ \A m \in 1..(k - 1) : m \notin renames
    ELSE OldLimit

\* safe_replace_existing(out_zip): the directory afterwards and how the call
\* ended ("return", "SystemExit", or "raise" when unlink raised something
\* other than PermissionError)
safe_replace_existing(d, unlink, renames) ==
    IF d.out_zip = "absent" THEN [dist |-> d, ended |-> "return", tried |-> 0]
    ELSE IF unlink = "ok"
    THEN [dist |-> [d EXCEPT !.out_zip = "absent"], ended |-> "return", tried |-> 0]
    ELSE IF unlink = "OSError" THEN [dist |-> d, ended |-> "raise", tried |-> 0]
    ELSE LET k == first_rename(renames)
         IN  IF k = OldLimit
             THEN [dist |-> d, ended |-> "SystemExit", tried |-> OldLimit - 1]
             ELSE [dist |-> [out_zip |-> "absent",
                             olds |-> [m \in DOMAIN d.olds \cup {k} |->
                                          IF m = k THEN d.out_zip ELSE d.olds[m]]],
                   ended |-> "return", tried |-> k]

\* files = [p for p in SDK_STAGING.rglob("*") if p.is_file()]
RegularFiles(tree) == {e \in tree : e.file}

\* the machines main stages and zips on
StageMachines ==
    [leftovers : Leftovers,
     dist : [out_zip : {"absent", "old"}, olds : {<<>>, [m \in {1} |-> "older"]}],
     sources : Sources,
     rmtree : {"ok", "raise"},
     unlink : {"ok", "PermissionError", "OSError"},
     renames : {{}, {1}, {2, 5}, {OldLimit - 1}}]

\* lines 344-425: dist/AuraSDK is removed if it exists, then filled
CleanAndStage ==
    /\ rmode = "stage"
    /\ rpc = "clean"
    /\ IF staged # {} /\ renv.rmtree = "raise"
       THEN /\ rpc' = "aborted"
            /\ result' = "raise"
            /\ UNCHANGED staged
       ELSE /\ staged' = copy_into(IF staged # {} THEN rmtree(staged) ELSE staged,
                                   renv.sources)
            /\ rpc' = "replace"
            /\ UNCHANGED result
    /\ UNCHANGED <<build_vars, step_vars, rmode, archives, args, renv, dist, attested,
                   launched>>

\* line 428: safe_replace_existing(out_zip)
SafeReplaceExisting ==
    /\ rmode = "stage"
    /\ rpc = "replace"
    /\ LET r == safe_replace_existing(dist, renv.unlink, renv.renames)
       IN  /\ dist' = r.dist
           /\ launched' = <<r.tried>>
           /\ rpc' = IF r.ended = "return" THEN "zip" ELSE "aborted"
           /\ result' = IF r.ended = "return" THEN result ELSE r.ended
    /\ UNCHANGED <<build_vars, step_vars, rmode, staged, archives, args, renv, attested>>

\* lines 430-437: the SDK zip is written at the canonical path
WriteOutZip ==
    /\ rmode = "stage"
    /\ rpc = "zip"
    /\ \E q \in Enumerations(RegularFiles(staged)) :
          archives' = <<Package(q)>>
    /\ dist' = [dist EXCEPT !.out_zip = "new"]
    /\ rpc' = "done"
    /\ UNCHANGED <<build_vars, step_vars, rmode, staged, args, renv, attested, launched,
                   result>>

\* the packager about to run twice on one staged tree found in two ways,
\* the repacker about to run twice on an archive, or main about to stage
\* and zip in a dist/ an earlier run may have left things in
(***************************************************************************)
(* release.py: repack_zip_deterministic with its files.  dist holds what   *)
(* is at dst_zip and at tmp (dst_zip + ".tmp"): no file, an archive, or a  *)
(* file whose writing was cut short; renv is what the call found, and      *)
(* whether src_zip is dst_zip.                                             *)
(***************************************************************************)
\* most entries of the source archive when the files are followed
MaxRepackedEntries == 2

\* a file of the entries written, whole or cut short by an exception
OnDisk(entries, whole) == [exists |-> TRUE, entries |-> entries, whole |-> whole]

\* no file at the path
NoFile == [exists |-> FALSE, entries |-> <<>>, whole |-> FALSE]

\* the entries of the sorted infos that are written, in order
Copied(zin) == SelectSeq(infos_sort(zin), LAMBDA info : ~is_dir(info))

\* where the call can fail before tmp is whole: "open" (ZipFile(src_zip) or
\* ZipFile(tmp, "w") raises), or k (zin.read or zout.writestr of the k-th
\* written entry raises); "none": it does not
Fault(at, k) == [at |-> at, k |-> k]

RepackFaults(zin) ==
    {Fault("none", 0), Fault("open", 0)}
    \cup {Fault("entry", k) : k \in 1..Len(Copied(zin))}

\* faulty variant: the entries are written to dst_zip itself
repack_in_place(d, zin, fault) ==
    IF fault.at = "open" THEN [d EXCEPT !.tmp = NoFile]
    ELSE IF fault.at = "none"
    THEN [d EXCEPT !.tmp = NoFile, !.dst = OnDisk(repack_zip_deterministic(zin), TRUE)]
    ELSE [d EXCEPT !.tmp = NoFile,
                   !.dst = OnDisk(RepackAll(<<>>, zin,
                                             SubSeq(Copied(zin), 1, fault.k - 1)), FALSE)]

\* safe_replace_existing(tmp) and the two with blocks: what is on disk when
\* they are left, normally or by the exception
repack_to_tmp(d, zin, fault) ==
    IF fault.at = "open" THEN [d EXCEPT !.tmp = NoFile]
    ELSE IF fault.at = "none"
    THEN [d EXCEPT !.tmp = OnDisk(repack_zip_deterministic(zin), TRUE)]
    ELSE [d EXCEPT !.tmp = OnDisk(RepackAll(<<>>, zin,
                                             SubSeq(Copied(zin), 1, fault.k - 1)), FALSE)]

\* what repack_zip_deterministic can find: the source archive, whether
\* dst_zip is the same path, what is at dst_zip and whether an earlier call
\* left a tmp
RepackMachines ==
    UNION {{[src |-> zin, same |-> same, dst |-> dst, tmp |-> tmp] :
               same \in BOOLEAN,
               dst \in {NoFile, OnDisk(<<>>, TRUE), OnDisk(zin, TRUE)},
               tmp \in {NoFile, OnDisk(<<>>, FALSE)}} :
           zin \in SeqsUpTo(ZipInfos, MaxRepackedEntries) \ {<<>>}}

\* safe_replace_existing(tmp), then the source is read and tmp written
RepackToTmp ==
    /\ rmode = "replace"
    /\ rpc = "tmp"
    /\ \E fault \in RepackFaults(archives[1]) :
          /\ dist' = repack_to_tmp(dist, archives[1], fault)
          /\ IF fault.at = "none"
             THEN rpc' = "replace" /\ UNCHANGED result
             ELSE rpc' = "aborted" /\ result' = "raised before tmp was whole"
    /\ UNCHANGED <<build_vars, step_vars, rmode, staged, archives, args, renv, attested,
                   launched>>

\* safe_replace_existing(dst_zip); tmp.rename(dst_zip): the rename works or
\* raises
RepackReplace ==
    /\ rmode = "replace"
    /\ rpc = "replace"
    /\ \E renamed \in BOOLEAN :
          IF renamed
          THEN /\ dist' = [dst |-> dist.tmp, tmp |-> NoFile]
               /\ rpc' = "done"
               /\ UNCHANGED result
          ELSE /\ dist' = [dist EXCEPT !.dst = NoFile]
               /\ rpc' = "aborted"
               /\ result' = "rename raised"
    /\ UNCHANGED <<build_vars, step_vars, rmode, staged, archives, args, renv, attested,
                   launched>>

PackInit ==
    /\ BuildIdle
    /\ StepIdle
    /\ \/ /\ rmode = "zip"
          /\ rpc = "first"
          /\ \E S \in StagedTrees : staged \in Stagings(S) \X Stagings(S)
          /\ archives = <<>>
          /\ renv = <<>>
          /\ dist = <<>>
       \/ /\ rmode = "repack"
          /\ rpc = "first"
          /\ staged = <<>>
          /\ archives \in {<<z>> : z \in SeqsUpTo(ZipInfos, MaxEntries)}
          /\ renv = <<>>
          /\ dist = <<>>
       \/ /\ rmode = "stage"
          /\ rpc = "clean"
          /\ renv \in StageMachines
          /\ staged = renv.leftovers
          /\ archives = <<>>
          /\ dist = renv.dist
       \/ /\ rmode = "replace"
          /\ rpc = "tmp"
          /\ renv \in {m \in RepackMachines : m.same => m.dst = OnDisk(m.src, TRUE)}
          /\ staged = <<>>
          /\ archives = <<renv.src>>
          /\ dist = [dst |-> renv.dst, tmp |-> renv.tmp]
    /\ args = <<>>
    /\ attested = <<>>
    /\ launched = <<>>
    /\ result = "none"

\* the first packaging run
ZipWriteFirst ==
    /\ rmode = "zip"
    /\ rpc = "first"
    /\ archives' = <<Package(staged[1].files)>>
    /\ rpc' = "second"
    /\ UNCHANGED <<build_vars, step_vars, rmode, staged, args, renv, dist, attested,
                   launched, result>>

\* the second packaging run, on the tree as found the second time
ZipWriteSecond ==
    /\ rmode = "zip"
    /\ rpc = "second"
    /\ archives' = Append(archives, Package(staged[2].files))
    /\ rpc' = "done"
    /\ UNCHANGED <<build_vars, step_vars, rmode, staged, args, renv, dist, attested,
                   launched, result>>

\* repack_zip_deterministic(src, dst)
RepackFirst ==
    /\ rmode = "repack"
    /\ rpc = "first"
    /\ archives' = Append(archives, repack_zip_deterministic(archives[1]))
    /\ rpc' = "second"
    /\ UNCHANGED <<build_vars, step_vars, rmode, staged, args, renv, dist, attested,
                   launched, result>>

\* repack_zip_deterministic(dst, dst): the repacked archive is repacked
RepackSecond ==
    /\ rmode = "repack"
    /\ rpc = "second"
    /\ archives' = Append(archives, repack_zip_deterministic(archives[2]))
    /\ rpc' = "done"
    /\ UNCHANGED <<build_vars, step_vars, rmode, staged, args, renv, dist, attested,
                   launched, result>>

PackNext ==
    \/ ZipWriteFirst
    \/ ZipWriteSecond
    \/ RepackFirst
    \/ RepackSecond
    \/ CleanAndStage
    \/ SafeReplaceExisting
    \/ WriteOutZip
    \/ RepackToTmp
    \/ RepackReplace

PackSpec == PackInit /\ [][PackNext]_release_vars

(***************************************************************************)
(* Vocabulary of the packaging properties.                                 *)
(***************************************************************************)
\* both packaging runs are over
Packaged == rmode = "zip" /\ rpc = "done"

\* the executable bits of the files, by path
ExeOf(staging) == {staging.files[k].parts : k \in {m \in 1..Len(staging.files) : staging.files[m].exe}}

\* an archive without its permission bits
SansAttr(z) == [k \in 1..Len(z) |-> [filename |-> z[k].filename, data |-> z[k].data,
                                      date_time |-> z[k].date_time]]

\* str.lower() on the letters A-Z
Lower(s) == [k \in 1..Len(s) |-> IF s[k] \in 65..90 THEN s[k] + 32 ELSE s[k]]

\* the archives the packager or the repacker has written
Written ==
    IF rmode = "zip" THEN {archives[k] : k \in 1..Len(archives)}
    ELSE IF rmode = "repack" THEN {archives[k] : k \in 2..Len(archives)}
    ELSE {}

\* AuraSDK/a.txt, AuraSDK/B.txt, AuraSDK/sub/c.bin
Arc_a_txt == SDK_STAGING \o <<Slash, 97, 46, 116, 120, 116>>

Arc_B_txt == SDK_STAGING \o <<Slash, 66, 46, 116, 120, 116>>

Arc_sub_c_bin == SDK_STAGING \o <<Slash, 115, 117, 98, Slash, 99, 46, 98, 105, 110>>

Names(z) == [k \in 1..Len(z) |-> z[k].filename]

(***************************************************************************)
(* C11.  Two runs of the packager over staged trees with the same relative *)
(* paths and file contents produce identical archives, whatever the        *)
(* enumeration order, the modification times and the clock.  As stated it  *)
(* fails: the entry's permission bits come from the staged file's mode.    *)
(* What holds: the two archives agree in entry order, names, data and      *)
(* timestamps always, and are identical when the staged files also have    *)
(* the same executable bits.                                               *)
(***************************************************************************)
C11_SameContentSameArchive ==
    Packaged => archives[1] = archives[2]

C11_SameContentAndModeSameArchive ==
    Packaged =>
        /\ SansAttr(archives[1]) = SansAttr(archives[2])
        /\ (ExeOf(staged[1]) = ExeOf(staged[2]) <=> archives[1] = archives[2])
        /\ \A k \in 1..Len(archives[1]) : archives[1][k].date_time = DosEpoch

C11_Witness ==
    /\ Packaged
    /\ Len(staged[1].files) = MaxFiles
    /\ staged[1].files # staged[2].files
    /\ \A k \in 1..MaxFiles : staged[1].files[k].parts # staged[2].files[k].parts
    /\ staged[1].clock # staged[2].clock
    /\ ExeOf(staged[1]) = ExeOf(staged[2])
    /\ ExeOf(staged[1]) # {}
    /\ archives[1] = archives[2]

C13_RepackIsIdempotent ==
    (rmode = "repack" /\ rpc = "done") => archives[3] = archives[2]

C13_Witness ==
    /\ rmode = "repack"
    /\ rpc = "done"
    /\ Len(archives[1]) = MaxEntries
    /\ archives[2] # archives[1]
    /\ Len(archives[2]) = 2
    /\ archives[2][1].filename = archives[2][2].filename
    /\ archives[1][1].data # archives[1][2].data
    /\ \E k \in 1..MaxEntries : is_dir(archives[1][k])
    /\ archives[3] = archives[2]

(***************************************************************************)
(* tools/release/release.py: main.  An artifact's content is a record of   *)
(* what it was copied or packed from and whether signtool has signed it;   *)
(* "absent" is a file that does not exist.  Every external process main    *)
(* launches is appended to launched, every sidecar it writes to attested.  *)
(***************************************************************************)
\* the files main itself writes under dist/
Artifacts ==
    {"out_zip", "android_zip", "vsix_out", "app_out", "app_latest", "msi_out",
     "msi_latest", "nsis_out", "nsis_latest"}

\* what the build tools leave behind for main to pick up
BuildOutputs == {"aura-sentinel.vsix", "produced_exe", "msi_src", "nsis_src"}

\* website/public/downloads/
WebsiteDownloads ==
    {"downloads/out_zip", "downloads/vsix_out", "downloads/app_out",
     "downloads/msi_out", "downloads/nsis_out", "downloads/aura-sdk.zip",
     "downloads/aura-sentinel.vsix", "downloads/app_latest", "downloads/msi_latest",
     "downloads/nsis_latest"}

Content(kind) == [kind |-> kind, signed |-> FALSE]

\* a file that does not exist
Absent == Content("absent")

\* sha256_file: the digest of a content, different for different contents
sha256_file(content) == <<"sha256", content>>

\* write_attestation(path, meta): the sidecar of the artifact at path
write_attestation(att, d, path, kind) ==
    Append(att, [artifact |-> path,
                 sha256 |-> IF d[path] # Absent THEN sha256_file(d[path]) ELSE <<"None">>,
                 kind |-> kind])

\* faulty variant: the sidecar is written whether or not --attest was given
Attest_always(a, att, d, path, kind) == write_attestation(att, d, path, kind)

\* if args.attest: write_attestation(...)
Attest(a, att, d, path, kind) ==
    IF a.attest THEN write_attestation(att, d, path, kind) ELSE att

\* run(cmd): the processes launched when the commands cmds are run in turn
\* and the fail_at-th exits nonzero (0: none does)
Launch(l, cmds, fail_at) ==
    l \o (IF fail_at = 0 THEN cmds ELSE SubSeq(cmds, 1, fail_at))

\* how a run of main can be aborted
Aborts == {"CalledProcessError", "SystemExit: missing output", "SystemExit: ndk",
           "SystemExit: password", "SystemExit: --sign requires"}

\* faulty variant: without a certificate the store is searched anyway
signing_unchecked(e) ==
    IF e.AURA_SIGN_THUMBPRINT # "None" THEN "signtool /sha1"
    ELSE IF e.AURA_SIGN_PFX # "None"
    THEN IF e.AURA_SIGN_PFX_PASSWORD = "None" THEN "SystemExit: password"
         ELSE "signtool /f"
    ELSE "signtool /sha1"

\* faulty variant: a certificate file is used without its password
signing_nopassword(e) ==
    IF e.AURA_SIGN_THUMBPRINT # "None" THEN "signtool /sha1"
    ELSE IF e.AURA_SIGN_PFX # "None" THEN "signtool /f"
    ELSE "SystemExit: --sign requires"

\* maybe_sign_windows, lines 74-113: the command it builds, or the exit
signing(e) ==
    IF e.AURA_SIGN_THUMBPRINT # "None" THEN "signtool /sha1"
    ELSE IF e.AURA_SIGN_PFX # "None"
    THEN IF e.AURA_SIGN_PFX_PASSWORD = "None" THEN "SystemExit: password"
         ELSE "signtool /f"
    ELSE "SystemExit: --sign requires"

\* maybe_sign_windows, lines 63-69: does it get as far as the certificates
sign_attempted(enabled, e, d, path) == enabled /\ e.os_nt /\ d[path] # Absent

\* the artifacts of the Sentinel app, in the order main writes them, each
\* with the build output it is copied from and the kind its sidecar names
AppStages ==
    <<[path |-> "app_out", src |-> "produced_exe", kind |-> "sentinel-app"],
      [path |-> "app_latest", src |-> "produced_exe", kind |-> "sentinel-app latest"],
      [path |-> "msi_out", src |-> "msi_src", kind |-> "msi"],
      [path |-> "msi_latest", src |-> "msi_src", kind |-> "msi latest"],
      [path |-> "nsis_out", src |-> "nsis_src", kind |-> "nsis"],
      [path |-> "nsis_latest", src |-> "nsis_src", kind |-> "nsis latest"]>>

\* the next artifact main writes from stage k on: installers whose build
\* output was not found are passed over; Len(AppStages) + 1: none is left
RECURSIVE NextStage(_, _)
NextStage(k, d) ==
    IF k > Len(AppStages) THEN k
    ELSE IF d[AppStages[k].src] # Absent THEN k
    ELSE NextStage(k + 1, d)

At(where, k) == [at |-> where, k |-> k]

\* the run ends before main returns
Abort(how) ==
    /\ result' = how
    /\ rpc' = At("aborted", 0)

\* main about to run on a clean dist/
MainInit ==
    /\ BuildIdle
    /\ StepIdle
    /\ rmode = "main"
    /\ rpc = At("build", 0)
    /\ staged = <<>>
    /\ archives = <<>>
    /\ args \in [no_build : BOOLEAN, android_arm64 : BOOLEAN, vsix : BOOLEAN,
                 sentinel_app : BOOLEAN, sign : BOOLEAN, attest : BOOLEAN,
                 website : BOOLEAN]
    /\ renv \in [os_nt : BOOLEAN, ANDROID_NDK_HOME : BOOLEAN,
                 AURA_SIGN_THUMBPRINT : {"None", "thumbprint"},
                 AURA_SIGN_PFX : {"None", "cert.pfx"},
                 AURA_SIGN_PFX_PASSWORD : {"None", "password"}]
    /\ dist = [f \in Artifacts \cup BuildOutputs \cup WebsiteDownloads |-> Absent]
    /\ attested = <<>>
    /\ launched = <<>>
    /\ result = "running"

\* lines 355-382: the cargo builds
Build ==
    /\ rmode = "main"
    /\ rpc = At("build", 0)
    /\ IF args.no_build
       THEN /\ rpc' = At("stage", 0)
            /\ UNCHANGED <<launched, result>>
       ELSE LET host == <<"cargo build -p aura", "cargo build -p aura-lsp">>
                android == <<"rustup target add", "cargo build --target android">>
            IN  \/ \E fail_at \in 0..2 :
                      /\ launched' = Launch(launched, host, fail_at)
                      /\ IF fail_at # 0 THEN Abort("CalledProcessError")
                         ELSE IF ~args.android_arm64
                         THEN rpc' = At("stage", 0) /\ UNCHANGED result
                         ELSE IF ~renv.ANDROID_NDK_HOME THEN Abort("SystemExit: ndk")
                         ELSE FALSE
                \/ /\ args.android_arm64
                   /\ renv.ANDROID_NDK_HOME
                   /\ \E fail_at \in 0..2 :
                         /\ launched' = Launch(launched \o host, android, fail_at)
                         /\ IF fail_at # 0 THEN Abort("CalledProcessError")
                            ELSE rpc' = At("stage", 0) /\ UNCHANGED result
    /\ UNCHANGED <<build_vars, step_vars, rmode, staged, archives, args, renv, dist,
                   attested>>

\* lines 384-447: the staging, the SDK zip and its sidecar; the binaries
\* are there when cargo has just built them
StageAndZip ==
    /\ rmode = "main"
    /\ rpc = At("stage", 0)
    /\ \E bins \in (IF args.no_build THEN BOOLEAN ELSE {TRUE}) :
          IF ~bins
          THEN Abort("SystemExit: missing output") /\ UNCHANGED <<dist, attested>>
          ELSE LET d == [dist EXCEPT !["out_zip"] = Content("sdk-zip")]
               IN  /\ dist' = d
                   /\ attested' = Attest(args, attested, d, "out_zip", "sdk-zip")
                   /\ rpc' = At("android", 0)
                   /\ UNCHANGED result
    /\ UNCHANGED <<build_vars, step_vars, rmode, staged, archives, args, renv, launched>>

\* lines 450-491: the Android SDK zip and its sidecar
AndroidZip ==
    /\ rmode = "main"
    /\ rpc = At("android", 0)
    /\ IF ~args.android_arm64
       THEN rpc' = At("vsix", 0) /\ UNCHANGED <<dist, attested, result>>
       ELSE \E bin \in (IF args.no_build THEN BOOLEAN ELSE {TRUE}) :
               IF ~bin
               THEN Abort("SystemExit: missing output") /\ UNCHANGED <<dist, attested>>
               ELSE LET d == [dist EXCEPT !["android_zip"] = Content("android sdk-zip")]
                    IN  /\ dist' = d
                        /\ attested' = Attest(args, attested, d, "android_zip", "sdk-zip")
                        /\ rpc' = At("vsix", 0)
                        /\ UNCHANGED result
    /\ UNCHANGED <<build_vars, step_vars, rmode, staged, archives, args, renv, launched>>

\* lines 500-525: the extension is packaged by npm, copied, repacked, attested
Vsix ==
    /\ rmode = "main"
    /\ rpc = At("vsix", 0)
    /\ IF ~(args.vsix \/ args.website)
       THEN rpc' = At("app", 0) /\ UNCHANGED <<dist, attested, launched, result>>
       ELSE \E fail_at \in 0..2, produced \in BOOLEAN :
               /\ launched' = Launch(launched, <<"npm ci (vscode)", "npm run package:vsix">>,
                                     fail_at)
               /\ IF fail_at # 0
                  THEN Abort("CalledProcessError") /\ UNCHANGED <<dist, attested>>
                  ELSE IF ~produced
                  THEN Abort("SystemExit: missing output") /\ UNCHANGED <<dist, attested>>
                  ELSE LET d == [dist EXCEPT !["aura-sentinel.vsix"] = Content("vsix"),
                                             !["vsix_out"] = Content("vsix repacked")]
                       IN  /\ dist' = d
                           /\ attested' = Attest(args, attested, d, "vsix_out", "vsix")
                           /\ rpc' = At("app", 0)
                           /\ UNCHANGED result
    /\ UNCHANGED <<build_vars, step_vars, rmode, staged, archives, args, renv>>

\* lines 527-547: the sidecar is staged (rustc -vV), npm builds the app, and
\* the build outputs are looked for; msi, nsis: installers were bundled
SentinelApp ==
    /\ rmode = "main"
    /\ rpc = At("app", 0)
    /\ IF ~args.sentinel_app
       THEN rpc' = At("website", 0) /\ UNCHANGED <<dist, launched, result>>
       ELSE \E fail_at \in 0..2, exe, msi, nsis \in BOOLEAN :
               /\ launched' = Launch(Append(launched, "rustc -vV"),
                                     <<"npm ci (sentinel-app)", "npm run tauri:build">>,
                                     fail_at)
               /\ IF fail_at # 0
                  THEN Abort("CalledProcessError") /\ UNCHANGED dist
                  ELSE IF ~exe
                  THEN Abort("SystemExit: missing output") /\ UNCHANGED dist
                  ELSE /\ dist' = [dist EXCEPT
                                      !["produced_exe"] = Content("exe"),
                                      !["msi_src"] = IF msi THEN Content("msi") ELSE Absent,
                                      !["nsis_src"] = IF nsis THEN Content("nsis") ELSE Absent]
                       /\ rpc' = At("write", 1)
                       /\ UNCHANGED result
    /\ UNCHANGED <<build_vars, step_vars, rmode, staged, archives, args, renv, attested>>

\* lines 549-561 and their five repetitions: the artifact is copied from
\* the build output and its sidecar is written
WriteArtifact ==
    /\ rmode = "main"
    /\ rpc.at = "write"
    /\ LET stage == AppStages[rpc.k]
           d == [dist EXCEPT ![stage.path] = dist[stage.src]]
       IN  /\ dist' = d
           /\ attested' = Attest(args, attested, d, stage.path, stage.kind)
    /\ rpc' = At("sign", rpc.k)
    /\ UNCHANGED <<build_vars, step_vars, rmode, staged, archives, args, renv, launched,
                   result>>

\* maybe_sign_windows(path, args.sign, env), lines 563, 580, 607, 624, 647, 664
MaybeSignWindows ==
    /\ rmode = "main"
    /\ rpc.at = "sign"
    /\ LET path == AppStages[rpc.k].path
           next == NextStage(rpc.k + 1, dist)
           on   == IF next > Len(AppStages) THEN At("website", 0) ELSE At("write", next)
       IN  IF ~sign_attempted(args.sign, renv, dist, path)
           THEN rpc' = on /\ UNCHANGED <<dist, launched, result>>
           ELSE LET cmd == signing(renv)
                IN  IF cmd \in Aborts
                    THEN Abort(cmd) /\ UNCHANGED <<dist, launched>>
                    ELSE /\ launched' = Append(launched, cmd)
                         /\ \E ok \in BOOLEAN :
                               IF ok
                               THEN /\ dist' = [dist EXCEPT ![path].signed = TRUE]
                                    /\ rpc' = on
                                    /\ UNCHANGED result
                               ELSE Abort("CalledProcessError") /\ UNCHANGED dist
    /\ UNCHANGED <<build_vars, step_vars, rmode, staged, archives, args, renv, attested>>

\* lines 666-710: the copies into the website's downloads, and return 0
Website ==
    /\ rmode = "main"
    /\ rpc = At("website", 0)
    /\ dist' = IF ~args.website THEN dist
               ELSE [f \in DOMAIN dist |->
                       CASE f \in {"downloads/out_zip", "downloads/aura-sdk.zip"} ->
                               dist["out_zip"]
                         [] f \in {"downloads/vsix_out", "downloads/aura-sentinel.vsix"} ->
                               IF dist["vsix_out"] # Absent THEN dist["vsix_out"]
                               ELSE dist[f]
                         [] f = "downloads/app_out" ->
                               IF dist["app_out"] # Absent THEN dist["app_out"] ELSE dist[f]
                         [] f = "downloads/msi_out" ->
                               IF dist["msi_out"] # Absent THEN dist["msi_out"] ELSE dist[f]
                         [] f = "downloads/nsis_out" ->
                               IF dist["nsis_out"] # Absent THEN dist["nsis_out"] ELSE dist[f]
                         [] f = "downloads/app_latest" ->
                               IF dist["app_latest"] # Absent THEN dist["app_latest"]
                               ELSE dist[f]
                         [] f = "downloads/msi_latest" ->
                               IF dist["msi_latest"] # Absent THEN dist["msi_latest"]
                               ELSE dist[f]
                         [] f = "downloads/nsis_latest" ->
                               IF dist["nsis_latest"] # Absent THEN dist["nsis_latest"]
                               ELSE dist[f]
                         [] OTHER -> dist[f]]
    /\ result' = "0"
    /\ rpc' = At("done", 0)
    /\ UNCHANGED <<build_vars, step_vars, rmode, staged, archives, args, renv, attested,
                   launched>>

MainNext ==
    \/ Build
    \/ StageAndZip
    \/ AndroidZip
    \/ Vsix
    \/ SentinelApp
    \/ WriteArtifact
    \/ MaybeSignWindows
    \/ Website

MainSpec == MainInit /\ [][MainNext]_release_vars

(***************************************************************************)
(* Vocabulary of the release properties.                                   *)
(***************************************************************************)
\* the sidecars written for the artifact at path
SidecarsOf(path) == {k \in 1..Len(attested) : attested[k].artifact = path}

\* the signing commands launched
Signtool(cmd) == {k \in 1..Len(launched) : launched[k] = cmd}

NoSigntool == Signtool("signtool /sha1") = {} /\ Signtool("signtool /f") = {}

\* no certificate thumbprint and no certificate file is supplied
NeitherMode == renv.AURA_SIGN_THUMBPRINT = "None" /\ renv.AURA_SIGN_PFX = "None"

\* a thumbprint and a certificate file are both supplied
BothModes == renv.AURA_SIGN_THUMBPRINT # "None" /\ renv.AURA_SIGN_PFX # "None"

\* a certificate file is supplied without its password
NoPassword == renv.AURA_SIGN_PFX # "None" /\ renv.AURA_SIGN_PFX_PASSWORD = "None"

\* the run gets to a call of maybe_sign_windows that looks at the certificates
SigningReached == args.sign /\ renv.os_nt /\ args.sentinel_app

ConfigurationErrors == {"SystemExit: password", "SystemExit: --sign requires"}

(***************************************************************************)
(* C14.  At the end of a release run every attestation sidecar records the *)
(* content hash of the final artifact at the recorded path: nothing        *)
(* changes an artifact after its hash was written to its sidecar.          *)
(***************************************************************************)
C14_SidecarHashIsFinal ==
    (rmode = "main" /\ result = "0") =>
        \A k \in 1..Len(attested) :
            attested[k].sha256 = sha256_file(dist[attested[k].artifact])

(***************************************************************************)
(* C15.  A sidecar is written only when attestation is requested; when it  *)
(* is requested there is exactly one sidecar per produced artifact (a file *)
(* main has written under dist/), and no sidecar is written twice in a run.*)
(***************************************************************************)
C15_OneSidecarPerArtifact ==
    rmode = "main" =>
        /\ ~args.attest => attested = <<>>
        /\ args.attest =>
              \A a \in Artifacts :
                  Cardinality(SidecarsOf(a)) = IF dist[a] # Absent THEN 1 ELSE 0
        /\ \A k \in 1..Len(attested) :
              /\ attested[k].artifact \in Artifacts
              /\ Cardinality(SidecarsOf(attested[k].artifact)) = 1

C15_Witness ==
    /\ rmode = "main"
    /\ result = "0"
    /\ args.attest
    /\ \A a \in Artifacts : dist[a] # Absent
    /\ Len(attested) = Cardinality(Artifacts)
    /\ dist["app_out"].signed

(***************************************************************************)
(* C16.  When signing is requested and neither a thumbprint nor a          *)
(* certificate file is supplied, the run fails with a configuration error  *)
(* before any external process is launched.  As stated it fails: the       *)
(* certificates are looked at only in maybe_sign_windows, on Windows, at   *)
(* the first artifact of the Sentinel app.  What holds: no signing process *)
(* is ever launched; the run is aborted there, after the builds have run   *)
(* and app_out has been written; a run that never gets there ends with 0.  *)
(***************************************************************************)
C16_NoProcessBeforeConfigurationError ==
    (rmode = "main" /\ args.sign /\ NeitherMode /\ result # "running") =>
        /\ result = "SystemExit: --sign requires"
        /\ launched = <<>>

C16_NoSigningProcessBeforeConfigurationError ==
    rmode = "main" =>
        /\ result = "SystemExit: --sign requires" =>
              /\ args.sign /\ NeitherMode /\ SigningReached
              /\ \E k \in 1..Len(launched) : launched[k] = "npm run tauri:build"
              /\ dist["app_out"] = Content("exe")
              /\ dist["app_latest"] = Absent
        /\ (args.sign /\ NeitherMode) =>
              /\ NoSigntool
              /\ result = "0" => ~SigningReached
              /\ (SigningReached /\ rpc.at \in {"write", "sign"}) => rpc.k = 1

C16_Witness ==
    /\ rmode = "main"
    /\ args.sign
    /\ NeitherMode
    /\ result = "SystemExit: --sign requires"
    /\ ~args.no_build
    /\ Len(launched) >= 5
    /\ attested # <<>>

(***************************************************************************)
(* C17.  When signing is requested exactly one of the two signing modes    *)
(* must be supplied: neither, both, or a certificate file without its      *)
(* password fail with a configuration error and no signing command runs.   *)
(* As stated it fails: with both supplied the thumbprint is used and the   *)
(* certificate file is ignored.  What holds is the table of signing().     *)
(***************************************************************************)
C17_ExactlyOneSigningMode ==
    (rmode = "main" /\ args.sign /\ (NeitherMode \/ BothModes \/ NoPassword)) =>
        /\ NoSigntool
        /\ ~(SigningReached /\ result = "0")

C17_SigningModes ==
    rmode = "main" =>
        /\ ~args.sign => NoSigntool
        /\ ~renv.os_nt => NoSigntool
        /\ result \in ConfigurationErrors => SigningReached
        /\ renv.AURA_SIGN_THUMBPRINT # "None" =>
              /\ Signtool("signtool /f") = {}
              /\ result \notin ConfigurationErrors
              /\ (SigningReached /\ result = "0") =>
                    Cardinality(Signtool("signtool /sha1"))
                        = Cardinality({a \in Artifacts : dist[a].signed})
        /\ (renv.AURA_SIGN_THUMBPRINT = "None" /\ renv.AURA_SIGN_PFX # "None"
              /\ renv.AURA_SIGN_PFX_PASSWORD # "None") =>
              /\ Signtool("signtool /sha1") = {}
              /\ result \notin ConfigurationErrors
              /\ (SigningReached /\ result = "0") => Signtool("signtool /f") # {}
        /\ (renv.AURA_SIGN_THUMBPRINT = "None" /\ NoPassword) =>
              /\ NoSigntool
              /\ result # "SystemExit: --sign requires"
              /\ SigningReached => result # "0"
        /\ NeitherMode =>
              /\ NoSigntool
              /\ result # "SystemExit: password"
              /\ SigningReached => result # "0"

C17_Witness ==
    /\ rmode = "main"
    /\ args.sign
    /\ BothModes
    /\ NoPassword
    /\ result = "0"
    /\ Cardinality(Signtool("signtool /sha1")) = 6
    /\ \A a \in {"app_out", "app_latest", "msi_out", "msi_latest", "nsis_out",
                 "nsis_latest"} : dist[a].signed

(***************************************************************************)
(* build_release.py: AuraBuilder.run_command and the environment of the    *)
(* child process.  A dict is a function from its keys; os.environ.copy()   *)
(* and dict.update() work on a heap of dicts, so that whether the ambient  *)
(* environment is touched is decided by what the code copies and updates.  *)
(***************************************************************************)
\* most calls of a step function in one run
MaxStepCalls == 2

\* values a caller can put in an env dict: a str, an int or None
StrVal(s) == [t |-> "str", s |-> s, n |-> 0]

IntVal(n) == [t |-> "int", s |-> "", n |-> n]

NoneVal == [t |-> "None", s |-> "", n |-> 0]

\* str(v)
str(v) == IF v.t = "int" THEN ToString(v.n) ELSE v.s

\* d.get(key, default)
get(d, key, default) == IF key \in DOMAIN d THEN d[key] ELSE default

\* faulty variant: no copy is made, the name is bound to the dict itself
copy_alias(heap, ref) == [heap |-> heap, ref |-> ref]

\* d.copy(): a new dict with the same items
copy(heap, ref) == [heap |-> Append(heap, heap[ref]), ref |-> Len(heap) + 1]

\* faulty variant: a key that is already set keeps its value
update_setdefault(heap, ref, other) ==
    [heap EXCEPT ![ref] = [k \in DOMAIN heap[ref] \cup DOMAIN other |->
                              IF k \in DOMAIN heap[ref] THEN heap[ref][k] ELSE other[k]]]

\* d.update(other): done in place, on the dict ref points at
update(heap, ref, other) ==
    [heap EXCEPT ![ref] = [k \in DOMAIN heap[ref] \cup DOMAIN other |->
                              IF k \in DOMAIN other THEN other[k] ELSE heap[ref][k]]]

\* {k: str(v) for k, v in env.items() if v is not None}
stringified(env) == [k \in {x \in DOMAIN env : env[x].t # "None"} |-> str(env[k])]

\* run_command, lines 86-88: heap[1] is os.environ; the result is the
\* environment handed to subprocess.run and os.environ as it is afterwards
merged_env(ambient, env) ==
    LET c  == copy(<<ambient>>, 1)
        h  == IF DOMAIN env # {} THEN update(c.heap, c.ref, stringified(env)) ELSE c.heap
    IN  [child |-> h[c.ref], environ |-> h[1]]

\* AuraBuilder._android_env; jh, sdk: self.java_home, self.android_sdk_root
_android_env(jh, sdk, ambient) ==
    LET java == IF jh = "None" THEN <<>>
                ELSE [k \in {"JAVA_HOME", "PATH"} |->
                        IF k = "JAVA_HOME" THEN StrVal(jh)
                        ELSE StrVal(jh \o "/bin" \o ";" \o get(ambient, "PATH", ""))]
        andr == IF sdk = "None" THEN <<>>
                ELSE [k \in {"ANDROID_SDK_ROOT", "ANDROID_HOME"} |-> StrVal(sdk)]
    IN  [k \in DOMAIN java \cup DOMAIN andr |->
            IF k \in DOMAIN java THEN java[k] ELSE andr[k]]

\* the ambient environments run_command is called in
Ambients ==
    UNION {[K -> {"ambient"}] : K \in SUBSET {"PATH", "JAVA_HOME", "AURA_SKIP_ANDROID"}}

\* the env arguments run_command is called with: none (None or {}), what
\* _android_env builds, and dicts holding a str, an int or None
EnvArguments(ambient) ==
    {<<>>}
    \cup {_android_env(jh, sdk, ambient) : jh \in {"None", "jdk-17"},
                                            sdk \in {"None", "android-sdk"}}
    \cup UNION {[K -> {StrVal("override"), IntVal(17), NoneVal}] :
                   K \in {{"PATH"}, {"JAVA_HOME", "GRADLE_OPTS"}}}

\* what the command does: it exits 0, exits nonzero, names a tool that does
\* not exist, times out, or subprocess.run raises
CommandOutcomes == {"ok", "nonzero", "missing", "timeout", "exception"}

\* the CompletedProcess of subprocess.run(display_cmd, shell=True, ...): the
\* process launched is the shell, so a missing tool is an exit of the shell
\* with its "not found" diagnostic on the error stream
CompletedProcess(outcome, n) ==
    [returncode |-> CASE outcome = "ok" -> 0
                      [] outcome = "missing" -> 127
                      [] OTHER -> 1,
     stderr |-> CASE outcome = "nonzero" -> Text("nonzero", "a command", n)
                  [] outcome = "missing" -> Text("not found", "a command", n)
                  [] OTHER -> NoText,
     stdout |-> IF outcome = "ok" THEN Text("ok", "a command", n) ELSE NoText]

\* faulty variant: the output stream is taken whatever the error stream holds
stderr_or_stdout_output(completed) == completed.stdout

\* result.stderr if result.stderr else result.stdout
stderr_or_stdout(completed) ==
    IF completed.stderr # NoText THEN completed.stderr ELSE completed.stdout

\* the text run_command returns beside its flag
error_msg(outcome, n) ==
    CASE outcome \in {"timeout", "exception"} -> Text(outcome, "a command", n)
      [] CompletedProcess(outcome, n).returncode # 0 ->
            stderr_or_stdout(CompletedProcess(outcome, n))
      [] OTHER -> CompletedProcess(outcome, n).stdout

\* one call of run_command
RunCommand ==
    /\ smode = "run_command"
    /\ Len(step_calls) < MaxStepCalls
    /\ \E env \in EnvArguments(os_environ), outcome \in CommandOutcomes :
          LET m == merged_env(os_environ, env)
              c == Cmd("a command", outcome = "ok")
              e == error_msg(outcome, err_len)
          IN  /\ os_environ' = m.environ
              /\ build_log' = run_command_log(build_log, c, e)
              /\ failed_steps' = run_command_failed(failed_steps, c, e)
              /\ step_calls' = Append(step_calls,
                                      [func |-> "run_command", env |-> env,
                                       before |-> os_environ, child |-> m.child,
                                       outcome |-> outcome, ret |-> outcome = "ok",
                                       detail |-> e])
    /\ UNCHANGED <<release_vars, smode, disk, mode, pc, selected, ordered, i, j, cur,
                   failed_count, failed, printed, log_file, exit_code, err_len, environ,
                   java_home, jdk_calls, invoked, returned>>

(***************************************************************************)
(* build_release.py: AuraBuilder.generate_manifest.  A file under          *)
(* dist-release/ is the tuple of the parts of its relative path (each a    *)
(* tuple of code points) with its size.                                    *)
(***************************************************************************)
\* most files under dist-release/ when the manifest is generated
MaxManifestFiles == 3

\* the code point of "\"
Backslash == 92

\* size / (1024 * 1024)
MiB == 1048576

\* "root"
Root == <<114, 111, 111, 116>>

\* "MANIFEST.json"
MANIFEST_json == <<77, 65, 78, 73, 70, 69, 83, 84, 46, 106, 115, 111, 110>>

\* the files dist-release/ is drawn from: a.md, bin/aura, bin/lib/z3,
\* docs/g.md
ReleaseFiles ==
    {<<<<97, 46, 109, 100>>>>,
     <<<<98, 105, 110>>, <<97, 117, 114, 97>>>>,
     <<<<98, 105, 110>>, <<108, 105, 98>>, <<122, 51>>>>,
     <<<<100, 111, 99, 115>>, <<103, 46, 109, 100>>>>}

\* the trees generate_manifest is called on
ReleaseTrees ==
    UNION {[P -> {0, MiB + MiB \div 2}] : P \in {Q \in SUBSET ReleaseFiles :
                                                    Cardinality(Q) <= MaxManifestFiles}}

\* a tree as the set of its files
FilesOf(tree) == {[parts |-> p, size |-> tree[p]] : p \in DOMAIN tree}

\* the directory a file lies in
Dir(f) == SubSeq(f.parts, 1, Len(f.parts) - 1)

IsProperPrefix(a, b) == Len(a) < Len(b) /\ SubSeq(b, 1, Len(a)) = a

\* os.walk(dist_root), top down: the orders in which it can yield the files;
\* the files of a directory come before those of the directories below it
WalkOrders(files) ==
    {q \in [1..Cardinality(files) -> files] :
        /\ \A a, b \in DOMAIN q : a # b => q[a] # q[b]
        /\ \A a, b \in DOMAIN q : IsProperPrefix(Dir(q[a]), Dir(q[b])) => a < b}

\* str(rel_path): the parts joined by os.sep
RECURSIVE PathStr(_, _)
PathStr(parts, sep) ==
    IF Len(parts) = 1 THEN parts[1]
    ELSE parts[1] \o <<sep>> \o PathStr(Tail(parts), sep)

\* s.replace("\\", "/")
replace_backslash(s) == [k \in 1..Len(s) |-> IF s[k] = Backslash THEN Slash ELSE s[k]]

\* category = rel_path.parts[0] if rel_path.parts else "root"
category(parts) == IF parts # <<>> THEN parts[1] ELSE Root

\* round(size / (1024 * 1024), 2), in hundredths
size_mb(size) == (size * 100 + MiB \div 2) \div MiB

\* the loop of generate_manifest over the files in the order walked
RECURSIVE Components(_, _, _)
Components(comps, walk, nt) ==
    IF walk = <<>> THEN comps
    ELSE LET f == Head(walk)
             c == category(f.parts)
             e == [file |-> replace_backslash(PathStr(f.parts, IF nt THEN Backslash ELSE Slash)),
                   size_bytes |-> f.size,
                   size_mb |-> size_mb(f.size)]
             had == IF c \in DOMAIN comps THEN comps[c] ELSE <<>>
         IN  Components([k \in DOMAIN comps \cup {c} |->
                            IF k = c THEN Append(had, e) ELSE comps[k]],
                        Tail(walk), nt)

\* one call of generate_manifest; dist-release/ may not exist, and then
\* os.walk yields nothing and open() raises
GenerateManifest ==
    /\ smode = "generate_manifest"
    /\ Len(step_calls) < MaxStepCalls
    /\ \E walk \in WalkOrders(IF disk.exists THEN disk.files ELSE {}) :
          LET comps == Components(<<>>, walk, environ.os_nt)
              l == log_section(build_log, "STEP 8: Generating Release Manifest")
          IN  IF disk.exists
              THEN /\ disk' = [disk EXCEPT !.files =
                                  {f \in @ : f.parts # <<MANIFEST_json>>}
                                  \cup {[parts |-> <<MANIFEST_json>>,
                                         size |-> 100 * (1 + Len(walk))]}]
                   /\ build_log' = log(l, "SUCCESS", "Manifest generated: ", "MANIFEST.json",
                                       NoText, 0)
                   /\ step_calls' = Append(step_calls,
                                           [func |-> "generate_manifest", ret |-> "true",
                                            before |-> disk.files, components |-> comps])
              ELSE /\ UNCHANGED disk
                   /\ build_log' = l
                   /\ step_calls' = Append(step_calls,
                                           [func |-> "generate_manifest", ret |-> "raise",
                                            before |-> {}, components |-> comps])
    /\ UNCHANGED <<release_vars, smode, os_environ, mode, pc, selected, ordered, i, j, cur,
                   failed_steps, failed_count, failed, printed, log_file, exit_code,
                   err_len, environ, java_home, jdk_calls, invoked, returned>>

(***************************************************************************)
(* build_release.py: the Android steps setup_android_toolchain,            *)
(* build_android_apk and copy_android_apk_to_dist.  Each works on a world  *)
(* as ensure_jdk does, extended with self.android_sdk_root and the files   *)
(* the steps look at; trace lists what the call did.  The files:           *)
(*   apk_src, build_ps1, setup_ps1   the file exists                       *)
(*   sdkmanagers    the SDK roots under which sdkmanager.bat exists        *)
(*   dist_android   dist/android exists                                    *)
(*   apk_dest       dist/android/AuraSentinelSample-debug.apk              *)
(* ensure_gradle_wrapper is taken by its outcome: the wrapper is           *)
(* "present", or it is generated by a command that succeeds ("installed")  *)
(* or fails ("failed").                                                    *)
(***************************************************************************)
\* most calls of an Android step in one run
MaxAndroidCalls == 1

\* os.environ.get("AURA_SKIP_ANDROID") == "1"
skip_android(amb) == get(amb, "AURA_SKIP_ANDROID", "None") = "1"

AndroidWorld(e, jh, l, fs, files) ==
    [env |-> e, java_home |-> jh, trace |-> <<>>, log |-> l, failed |-> fs,
     ret |-> "running", files |-> files]

\* the call goes on after a callee returned True
Resume(w) == [w EXCEPT !.ret = "running"]

\* self.run_command(cmd, description=desc, ...) inside a step
Ran(w, tool, desc, ok, err) ==
    [Trace(w, "run", tool) EXCEPT !.log = run_command_log(@, Cmd(desc, ok), err),
                                  !.failed = run_command_failed(@, Cmd(desc, ok), err)]

\* "if not success: return False", and the return that follows a success
Succeeded(w, ok, msg) ==
    IF ok THEN Returns(Logged(w, "SUCCESS", msg, ""), TRUE) ELSE Returns(w, FALSE)

\* sdk_root: AURA_ANDROID_SDK_ROOT if set and not empty, else .tools/android-sdk
sdk_root(amb) ==
    IF get(amb, "AURA_ANDROID_SDK_ROOT", "") # "" THEN amb["AURA_ANDROID_SDK_ROOT"]
    ELSE "android-sdk"

\* existing = os.environ.get("ANDROID_SDK_ROOT") or os.environ.get("ANDROID_HOME"):
\* "" when neither is set; ANDROID_HOME counts only when ANDROID_SDK_ROOT is
\* unset or empty
existing(amb) ==
    IF get(amb, "ANDROID_SDK_ROOT", "") # "" THEN amb["ANDROID_SDK_ROOT"]
    ELSE get(amb, "ANDROID_HOME", "")

\* faulty variant: a root named by the environment is taken without a look
\* for sdkmanager.bat
sdkmanager_exists_unchecked(files, root) == TRUE

\* (root / "cmdline-tools" / "latest" / "bin" / "sdkmanager.bat").exists()
sdkmanager_exists(files, root) == root \in files.sdkmanagers

\* ensure_android_sdk from "if not self.ensure_jdk(): return False" on; w is
\* the world ensure_jdk returned.  inp.sdk: the setup script fails
\* ("failed"), succeeds and leaves sdkmanager.bat under sdk_root
\* ("installed"), or succeeds without it ("nomarker")
install_android_sdk(w, amb, inp) ==
    IF w.ret = "false" THEN w
    ELSE LET w1 == Ran(Logged(Resume(w), "INFO", "Installing Android SDK into: ", sdk_root(amb)),
                       "setup-android.ps1", "Install Android SDK via setup-android.ps1",
                       inp.sdk # "failed", inp.jdk.err)
             w2 == Trace([w1 EXCEPT !.files.sdkmanagers =
                                       IF inp.sdk = "installed" THEN @ \cup {sdk_root(amb)}
                                       ELSE @],
                         "stat", sdk_root(amb))
         IN  IF inp.sdk = "failed" THEN Returns(w1, FALSE)
             ELSE IF ~sdkmanager_exists(w2.files, sdk_root(amb))
             THEN Returns(Logged(w2, "ERROR",
                                 "Android SDK install completed but sdkmanager not found: ",
                                 sdk_root(amb)), FALSE)
             ELSE Succeeded([w2 EXCEPT !.files.android_sdk_root = sdk_root(amb)],
                            TRUE, "Android SDK installed")

\* ensure_android_sdk up to the look for setup-android.ps1: the root is
\* taken from the environment or from .tools (ret "true"), the setup script
\* is missing (ret "false"), or the SDK is to be installed (ret "running")
find_android_sdk(w0, amb) ==
    LET w1 == Trace(Trace([w0 EXCEPT !.log = log_section(@, "ANDROID DEP: Android SDK")],
                          "env", "AURA_ANDROID_SDK_ROOT"),
                    "env", "ANDROID_SDK_ROOT")
        w2 == IF get(amb, "ANDROID_SDK_ROOT", "") # "" THEN w1
              ELSE Trace(w1, "env", "ANDROID_HOME")
        w3 == IF existing(amb) = "" THEN w2 ELSE Trace(w2, "stat", existing(amb))
        w4 == Trace(w3, "stat", sdk_root(amb))
        w5 == Trace(w4, "stat", "setup-android.ps1")
    IN  IF existing(amb) # "" /\ sdkmanager_exists(w3.files, existing(amb))
        THEN Succeeded([w3 EXCEPT !.files.android_sdk_root = existing(amb)],
                       TRUE, "Using existing Android SDK: ")
        ELSE IF sdkmanager_exists(w4.files, sdk_root(amb))
        THEN Succeeded([w4 EXCEPT !.files.android_sdk_root = sdk_root(amb)],
                       TRUE, "Android SDK present: ")
        ELSE IF ~w5.files.setup_ps1
        THEN Returns(Logged(w5, "ERROR", "Missing setup script: ", ""), FALSE)
        ELSE w5

\* ensure_android_sdk from the look for setup-android.ps1 on; w is the world
\* find_android_sdk returned
bootstrap_android_sdk(w, amb, inp) ==
    IF w.ret # "running" THEN w
    ELSE install_android_sdk(ensure_jdk(w, inp.jdk), amb, inp)

\* ensure_android_sdk
ensure_android_sdk(w0, amb, inp) ==
    bootstrap_android_sdk(find_android_sdk(w0, amb), amb, inp)

\* ensure_gradle_wrapper from "if not self.ensure_jdk(): return False" on
generate_gradle_wrapper(w, inp) ==
    IF w.ret = "false" THEN w
    ELSE Succeeded(Ran(Trace(Resume(w), "stat", "gradle.bat"), "gradle.bat",
                       "Generate Gradle wrapper (gradlew.bat)",
                       inp.gradle = "installed", inp.jdk.err),
                   inp.gradle = "installed", "Gradle wrapper generated")

\* ensure_gradle_wrapper
ensure_gradle_wrapper(w0, inp) ==
    IF inp.gradle = "present"
    THEN Succeeded(Trace([w0 EXCEPT !.log = log_section(@, "ANDROID DEP: Gradle Wrapper")],
                         "stat", "gradlew.bat"),
                   TRUE, "Gradle wrapper already present")
    ELSE generate_gradle_wrapper(
             ensure_jdk(Trace([w0 EXCEPT !.log = log_section(@, "ANDROID DEP: Gradle Wrapper")],
                              "stat", "gradlew.bat"),
                        inp.jdk),
             inp)

\* faulty variant: the wrapper is resolved whatever ensure_android_sdk returned
setup_gradle_wrapper_anyway(w, inp) == ensure_gradle_wrapper(Resume(w), inp)

\* setup_android_toolchain from "if not self.ensure_gradle_wrapper()" on; w is
\* the world ensure_android_sdk returned
setup_gradle_wrapper(w, inp) ==
    IF w.ret = "false" THEN w ELSE ensure_gradle_wrapper(Resume(w), inp)

\* setup_android_toolchain from "if not self.ensure_android_sdk()" on; w is
\* the world ensure_jdk returned
setup_android_sdk(w, amb, inp) ==
    IF w.ret = "false" THEN w
    ELSE setup_gradle_wrapper(ensure_android_sdk(Resume(w), amb, inp), inp)

\* setup_android_toolchain
setup_android_toolchain(w0, amb, inp) ==
    IF skip_android(amb)
    THEN Returns(Logged([w0 EXCEPT !.log = log_section(@, "STEP 3: Bootstrapping Android Toolchain")],
                        "WARN", "AURA_SKIP_ANDROID=1 set; skipping Android toolchain setup", ""),
                 TRUE)
    ELSE setup_android_sdk(
             ensure_jdk([w0 EXCEPT !.log =
                            log_section(@, "STEP 3: Bootstrapping Android Toolchain")],
                        inp.jdk),
             amb, inp)

\* build_android_apk from "if not self.setup_android_toolchain()" on, with
\* AURA_ANDROID_VARIANTS unset: the debug variant
build_apk_ps1(w, inp) ==
    IF w.ret = "false" THEN w
    ELSE IF ~w.files.build_ps1
    THEN Returns(Logged(Trace(Resume(w), "stat", "build-apk.ps1"),
                        "ERROR", "Missing build script: ", ""), FALSE)
    ELSE Returns([Ran(Trace(Resume(w), "stat", "build-apk.ps1"), "build-apk.ps1",
                      "Build APK (debug) via sdk/android/build-apk.ps1",
                      inp.build, inp.jdk.err)
                     EXCEPT !.files.apk_src = @ \/ inp.build],
                 inp.build)

\* build_android_apk
build_android_apk(w0, amb, inp) ==
    IF skip_android(amb)
    THEN Returns(Logged([w0 EXCEPT !.log = log_section(@, "STEP 4: Building Android APK")],
                        "WARN", "AURA_SKIP_ANDROID=1 set; skipping APK build", ""),
                 TRUE)
    ELSE build_apk_ps1(
             setup_android_toolchain([w0 EXCEPT !.log =
                                         log_section(@, "STEP 4: Building Android APK")],
                                     amb, inp),
             inp)

\* copy_android_apk_to_dist from the point where the APK was found
copy2(w, inp) ==
    IF inp.copy
    THEN Returns(Logged([w EXCEPT !.files.apk_dest = "copied"],
                        "SUCCESS", "APK copied to dist/android/", ""), TRUE)
    ELSE Returns(Logged(w, "WARN", "Failed to copy APK: ", ""), TRUE)

\* copy_android_apk_to_dist: the skip flag is looked at only when the APK is
\* missing
copy_android_apk_to_dist(w0, amb, inp) ==
    LET w1 == Trace([w0 EXCEPT !.log = log_section(@, "STEP 5: Packaging Android APK")],
                    "stat", "apk_src")
    IN  IF ~w0.files.apk_src
        THEN IF skip_android(amb)
             THEN Returns(Logged(w1, "WARN", "APK not found (Android skipped)", ""), TRUE)
             ELSE Returns(Logged(w1, "ERROR",
                                 "APK not found; Android build did not produce output", ""),
                          FALSE)
        ELSE copy2(Trace(Trace([w1 EXCEPT !.files.dist_android = TRUE],
                               "mkdir", "dist/android"), "copy", "apk_src"),
                   inp)

\* what the world outside does during one call of an Android step: the
\* JDK is downloaded intact or every download fails; the SDK setup script
\* installs the SDK, runs without leaving sdkmanager.bat, or fails; the
\* Gradle wrapper is present, installed or not installable; the APK build
\* and the copy work or fail
AndroidInputs(e, n) ==
    LET jdk == [first_ok |-> 1, served |-> "intact", stuck |-> FALSE, io |-> "ok",
                wg |-> "fail", err |-> Text("stderr", "command", n)]
    IN  [jdk : {jdk, [jdk EXCEPT !.first_ok = 0]},
         sdk : {"installed", "nomarker", "failed"},
         gradle : {"present", "installed", "failed"},
         build : BOOLEAN,
         copy : BOOLEAN]

AndroidSteps == {"setup_android_toolchain", "build_android_apk", "copy_android_apk_to_dist"}

\* the effect of one call of the Android step func that ended in world w
AndroidStep(func, w) ==
    /\ environ' = w.env
    /\ java_home' = w.java_home
    /\ build_log' = w.log
    /\ failed_steps' = w.failed
    /\ disk' = w.files
    /\ step_calls' = Append(step_calls,
                            [func |-> func, ret |-> w.ret, trace |-> w.trace,
                             skip |-> skip_android(os_environ),
                             before |-> disk, after |-> w.files,
                             machine |-> environ, java_home |-> w.java_home,
                             found |-> w.env,
                             failures |-> SubSeq(w.failed, Len(failed_steps) + 1,
                                                 Len(w.failed))])
    /\ UNCHANGED <<release_vars, smode, os_environ, mode, pc, selected, ordered, i, j, cur,
                   failed_count, failed, printed, log_file, exit_code, err_len,
                   jdk_calls, invoked, returned>>

\* step "android": neither the build nor the copy is reached
SetupAndroidToolchain ==
    /\ smode = "android"
    /\ Len(step_calls) < MaxAndroidCalls
    /\ \E inp \in {x \in AndroidInputs(environ, err_len) : x.build /\ x.copy} :
          AndroidStep("setup_android_toolchain",
                      setup_android_toolchain(AndroidWorld(environ, java_home, build_log,
                                                           failed_steps, disk),
                                              os_environ, inp))

\* step "apk": the copy is not reached
BuildAndroidApk ==
    /\ smode = "android"
    /\ Len(step_calls) < MaxAndroidCalls
    /\ \E inp \in {x \in AndroidInputs(environ, err_len) : x.copy} :
          AndroidStep("build_android_apk",
                      build_android_apk(AndroidWorld(environ, java_home, build_log,
                                                     failed_steps, disk),
                                        os_environ, inp))

\* step "apk-package": no tool is looked for and nothing is built
CopyAndroidApkToDist ==
    /\ smode = "android"
    /\ Len(step_calls) < MaxAndroidCalls
    /\ \E inp \in {x \in AndroidInputs(environ, err_len) :
                      /\ x.jdk.first_ok = 1
                      /\ x.sdk = "installed"
                      /\ x.gradle = "present"
                      /\ x.build} :
          AndroidStep("copy_android_apk_to_dist",
                      copy_android_apk_to_dist(AndroidWorld(environ, java_home, build_log,
                                                            failed_steps, disk),
                                               os_environ, inp))

\* the ambient environments the Android steps are called in: ANDROID_SDK_ROOT
\* names sdk-a, ANDROID_HOME names sdk-b
AndroidAmbients ==
    {<<>>} \cup [{"AURA_SKIP_ANDROID"} -> {"1", "0"}]
    \cup {[k \in K |-> IF k = "ANDROID_SDK_ROOT" THEN "sdk-a" ELSE "sdk-b"] :
             K \in {{"ANDROID_SDK_ROOT"}, {"ANDROID_HOME"},
                    {"ANDROID_SDK_ROOT", "ANDROID_HOME"}}}

(***************************************************************************)
(* build_release.py: build_all and run_selected_steps as functions of the  *)
(* outcomes of the step functions.  An outcome map gives, for each step    *)
(* function, what its call does (StepBehaviours).  The result of a run is  *)
(* the functions called, in order, the entries of failed_steps and the     *)
(* returned status.                                                        *)
(***************************************************************************)
\* the callable each key of step_map names
step_func(key) ==
    CASE key = "core" -> "build_aura_core"
      [] key = "sentinel" -> "build_sentinel_ide"
      [] key = "android" -> "setup_android_toolchain"
      [] key = "apk" -> "build_android_apk"
      [] key = "apk-package" -> "copy_android_apk_to_dist"
      [] key = "verify" -> "verify_binaries"
      [] key = "dist" -> "create_distribution"
      [] key = "manifest" -> "generate_manifest"
      [] key = "docs" -> "collect_markdown_docs"
      [] key = "roadmap" -> "rearrange_roadmap_summary"
      [] key = "reorg-root" -> "reorg_repo_root"

Step(name, func) == [name |-> name, func |-> func]

\* faulty variant: "Binary Verification" is not in the list
steps_without_verify ==
    <<Step("Aura Core", "build_aura_core"),
      Step("Sentinel IDE", "build_sentinel_ide"),
      Step("Android Setup", "setup_android_toolchain"),
      Step("Android APK", "build_android_apk"),
      Step("APK Packaging", "copy_android_apk_to_dist"),
      Step("Distribution Creation", "create_distribution"),
      Step("Manifest Generation", "generate_manifest")>>

\* build_all's list of (step_name, step_func)
steps ==
    <<Step("Aura Core", "build_aura_core"),
      Step("Sentinel IDE", "build_sentinel_ide"),
      Step("Android Setup", "setup_android_toolchain"),
      Step("Android APK", "build_android_apk"),
      Step("APK Packaging", "copy_android_apk_to_dist"),
      Step("Binary Verification", "verify_binaries"),
      Step("Distribution Creation", "create_distribution"),
      Step("Manifest Generation", "generate_manifest")>>

\* the outcome maps over the step functions the keys name: what each does
\* when called
RECURSIVE OutcomesOver(_)
OutcomesOver(keys) ==
    IF keys = <<>> THEN {<<>>}
    ELSE {(step_func(Head(keys)) :> b) @@ o :
             b \in StepBehaviours(Head(keys)), o \in OutcomesOver(Tail(keys))}

StepOutcomes == OutcomesOver(BuildAllSteps)

\* a builder before its loop
Fresh == [ordered |-> <<>>, invoked |-> <<>>, failed_steps |-> <<>>, failed_count |-> 0]

\* step_func() runs: its failing commands append to failed_steps
Called(r, s, b, n) ==
    [r EXCEPT !.invoked = Append(@, s.func),
              !.failed_steps = RunCommandsFailed(@, b.cmds, Text("stderr", s.name, n))]

\* build_all's loop over steps
RECURSIVE build_all_loop(_, _, _, _)
build_all_loop(r, todo, o, n) ==
    IF todo = <<>> THEN r
    ELSE LET s == Head(todo)
             b == o[s.func]
             c == Called(r, s, b, n)
         IN  build_all_loop(
                CASE b.ret = "true" -> c
                  [] b.ret = "false" ->
                        [c EXCEPT !.failed_steps =
                                      Append(@, [step |-> s.name,
                                                 error |-> StepReturnedFalseText]),
                                  !.failed_count = @ + 1]
                  [] b.ret = "raise" ->
                        [c EXCEPT !.failed_steps =
                                      Append(@, [step |-> s.name,
                                                 error |-> Text("exception", s.name, n)]),
                                  !.failed_count = @ + 1],
                Tail(todo), o, n)

\* build_all: what it called, what it recorded and what it returns
build_all(o, n) ==
    LET r == build_all_loop(Fresh, steps, o, n)
    IN  [invoked |-> r.invoked, failed_steps |-> r.failed_steps,
         exit_code |-> ExitStatus(r.failed_count)]

\* run_selected_steps: for key in selected
RECURSIVE resolve(_, _)
resolve(r, sel) ==
    IF sel = <<>> THEN r
    ELSE IF Head(sel) \notin StepKeys
    THEN resolve([r EXCEPT !.failed_steps =
                               _step_failed(@, "args",
                                            Text("Unknown step: ", Head(sel),
                                                 14 + StrLen(Head(sel))))],
                 Tail(sel))
    ELSE resolve([r EXCEPT !.ordered =
                               Append(@, Step(step_map(Head(sel)), step_func(Head(sel))))],
                 Tail(sel))

\* run_selected_steps' loop over ordered
RECURSIVE run_selected_steps_loop(_, _, _, _)
run_selected_steps_loop(r, todo, o, n) ==
    IF todo = <<>> THEN r
    ELSE LET s == Head(todo)
             b == o[s.func]
             c == Called(r, s, b, n)
         IN  run_selected_steps_loop(
                CASE b.ret = "true" -> c
                  [] b.ret = "false" ->
                        [c EXCEPT !.failed_steps =
                                      _step_failed(@, s.name, StepReturnedFalseText),
                                  !.failed_count = @ + 1]
                  [] b.ret = "raise" ->
                        [c EXCEPT !.failed_steps =
                                      _step_failed(@, s.name, Text("exception", s.name, n)),
                                  !.failed_count = @ + 1],
                Tail(todo), o, n)

\* run_selected_steps: what it called, what it recorded and what it returns
run_selected_steps(sel, o, n) ==
    LET r0 == resolve(Fresh, sel)
        r == run_selected_steps_loop(r0, r0.ordered, o, n)
    IN  [invoked |-> r.invoked, failed_steps |-> r.failed_steps,
         exit_code |-> ExitStatus(r.failed_count)]

\* the selections run_selected_steps is compared on: build_all's keys, and
\* the same with a key that is not in step_map
ComparedSelections == {BuildAllSteps, <<"bogus">> \o BuildAllSteps}

\* one run of build_all and one of run_selected_steps on machines whose step
\* functions do the same
ComparePipelines ==
    /\ smode = "pipelines"
    /\ step_calls = <<>>
    /\ \E o \in StepOutcomes, sel \in ComparedSelections :
          step_calls' = <<[func |-> "build_all", outcomes |-> o, selected |-> sel,
                           build_all |-> build_all(o, err_len),
                           run_selected_steps |-> run_selected_steps(sel, o, err_len)]>>
    /\ UNCHANGED <<release_vars, smode, os_environ, disk, build_vars>>

(***************************************************************************)
(* aura-deploy.py: AuraDeploymentSystem.deploy_full, and                   *)
(* sdk/android/aura_apk.py: AuraApkBuilder.full.  A run is the stage       *)
(* functions executed, in order (stages), the processes launched           *)
(* (processes) and the result: "true", "false" or "raise".  The machine m: *)
(*   source          the source file exists                                *)
(*   platform_tools  <sdk_root>/platform-tools exists                      *)
(*   java            what "java -version" does: "ok", "nonzero", or        *)
(*                   "missing" (no java on the search path)                *)
(*   setup, build, run   the stage's process exits 0                       *)
(***************************************************************************)
DeployMachines ==
    [source : BOOLEAN, platform_tools : BOOLEAN, java : {"ok", "nonzero", "missing"},
     setup : BOOLEAN, build : BOOLEAN, run : BOOLEAN]

\* a pipeline that has executed nothing yet
NoStage == [stages |-> <<>>, processes |-> <<>>, ret |-> "running"]

\* a stage function is entered
Entered(r, stage) == [r EXCEPT !.stages = Append(@, stage)]

\* a stage's process is launched and exits 0 (ok) or not: _run_ps_mode,
\* _run_python_build and _run return returncode == 0 and False on an
\* exception of subprocess.run
Launched(r, process, ok) ==
    [r EXCEPT !.processes = Append(@, process),
              !.ret = IF ok THEN "running" ELSE "false"]

\* deploy_full, step 3: the run stage, then return True
deploy_run(r, m) ==
    IF r.ret # "running" THEN r
    ELSE [Launched(Entered(r, "run"), "powershell -Mode run", m.run)
             EXCEPT !.ret = IF m.run THEN "true" ELSE "false"]

\* deploy_full, step 2: the build stage
deploy_build(r, m) ==
    IF r.ret # "running" THEN r
    ELSE deploy_run(Launched(Entered(r, "build"), "aura_apk.py build", m.build), m)

\* faulty variant: the setup stage is executed whether or not platform-tools
\* exists
deploy_setup_always(r, m) ==
    deploy_build(Launched(Entered(r, "setup"), "powershell -Mode setup", m.setup), m)

\* deploy_full, step 1: the setup stage, if platform-tools is absent
deploy_setup(r, m) ==
    IF m.platform_tools THEN deploy_build(r, m)
    ELSE deploy_build(Launched(Entered(r, "setup"), "powershell -Mode setup", m.setup), m)

\* AuraDeploymentSystem.deploy_full
deploy_full(m) ==
    IF ~m.source THEN [NoStage EXCEPT !.ret = "false"]
    ELSE deploy_setup(NoStage, m)

\* AuraApkBuilder.run_emulator, then return True
full_run(r, m) ==
    IF r.ret # "running" THEN r
    ELSE [Launched(Entered(r, "run"), "powershell -Mode run", m.run)
             EXCEPT !.ret = IF m.run THEN "true" ELSE "false"]

\* AuraApkBuilder.build: a missing source file fails the stage before any
\* process is launched
full_build(r, m) ==
    IF r.ret # "running" THEN r
    ELSE IF ~m.source THEN [Entered(r, "build") EXCEPT !.ret = "false"]
    ELSE full_run(Launched(Entered(r, "build"), "powershell -Mode build", m.build), m)

\* AuraApkBuilder.setup: _check_java runs "java -version" outside any try, so a
\* missing java raises FileNotFoundError out of full
full_setup(r, m) ==
    LET r1 == [Entered(r, "setup") EXCEPT !.processes = Append(@, "java -version")]
    IN  IF m.java = "missing" THEN [r1 EXCEPT !.ret = "raise"]
        ELSE IF m.java = "nonzero" THEN [r1 EXCEPT !.ret = "false"]
        ELSE Launched(r1, "powershell -Mode setup", m.setup)

\* AuraApkBuilder.full
full(m) ==
    IF m.platform_tools THEN full_build(NoStage, m)
    ELSE full_build(full_setup(NoStage, m), m)

\* one call of deploy_full
DeployFull ==
    /\ smode = "deploy"
    /\ step_calls = <<>>
    /\ \E m \in DeployMachines :
          step_calls' = <<[func |-> "deploy_full", machine |-> m, run |-> deploy_full(m)]>>
    /\ UNCHANGED <<release_vars, smode, os_environ, disk, build_vars>>

\* one call of full
ApkFull ==
    /\ smode = "deploy"
    /\ step_calls = <<>>
    /\ \E m \in DeployMachines :
          step_calls' = <<[func |-> "full", machine |-> m, run |-> full(m)]>>
    /\ UNCHANGED <<release_vars, smode, os_environ, disk, build_vars>>

\* ---------------------------------------------------------------------
\* shop_list_gui storage: save_items
\* ---------------------------------------------------------------------

\* the item lists a caller saves
ShoppingLists == {<<>>, <<"milk">>, <<"milk", "eggs">>}

\* where a call can raise: path.parent.mkdir, tempfile.mkstemp, os.fdopen,
\* json.dump (part of the payload is written), os.replace; or nowhere
SaveFaults == {"none", "mkdir", "mkstemp", "fdopen", "json.dump", "os.replace"}

\* the body of the try: the payload is written to the temporary file, which
\* then replaces path in one step
save_try(d, items, fault) ==
    IF fault = "fdopen" THEN [disk |-> d, raised |-> TRUE]
    ELSE IF fault = "json.dump"
    THEN [disk |-> [d EXCEPT !.tmp = OnDisk(SubSeq(items, 1, Len(items) - 1), FALSE)],
          raised |-> TRUE]
    ELSE IF fault = "os.replace"
    THEN [disk |-> [d EXCEPT !.tmp = OnDisk(items, TRUE)], raised |-> TRUE]
    ELSE [disk |-> [target |-> OnDisk(items, TRUE), tmp |-> NoFile], raised |-> FALSE]

\* a finally that removes nothing
save_finally_keep(d, remove_ok) == d

\* the finally: the temporary file is removed if it is still there; an OSError
\* of os.remove is swallowed
save_finally(d, remove_ok) ==
    IF d.tmp.exists /\ remove_ok THEN [d EXCEPT !.tmp = NoFile] ELSE d

\* save_items(path, items) on the disk d
save_items(d, items, io) ==
    IF io.fault \in {"mkdir", "mkstemp"} THEN [disk |-> d, raised |-> TRUE]
    ELSE LET t == save_try([d EXCEPT !.tmp = OnDisk(<<>>, FALSE)], items, io.fault)
         IN  [disk |-> save_finally(t.disk, io.remove_ok), raised |-> t.raised]

\* one call of save_items
SaveItems ==
    /\ smode = "save_items"
    /\ step_calls = <<>>
    /\ \E items \in ShoppingLists, fault \in SaveFaults, remove_ok \in BOOLEAN :
          LET r == save_items(disk, items, [fault |-> fault, remove_ok |-> remove_ok])
          IN  /\ disk' = r.disk
              /\ step_calls' = <<[func |-> "save_items", items |-> items, fault |-> fault,
                                  remove_ok |-> remove_ok, before |-> disk,
                                  after |-> r.disk, raised |-> r.raised]>>
    /\ UNCHANGED <<release_vars, smode, os_environ, build_vars>>

\* a fresh AuraBuilder about to call one of its step functions
StepInit ==
    /\ ReleaseIdle
    /\ \/ /\ smode = "run_command"
          /\ os_environ \in Ambients
          /\ disk = <<>>
          /\ environ = QuietMachine
       \/ /\ smode = "generate_manifest"
          /\ os_environ = <<>>
          /\ disk \in {[exists |-> FALSE, files |-> {}]}
                      \cup {[exists |-> TRUE, files |-> FilesOf(t)] : t \in ReleaseTrees}
          /\ environ \in {QuietMachine, [QuietMachine EXCEPT !.os_nt = FALSE]}
       \/ /\ smode = "android"
          /\ os_environ \in AndroidAmbients
          /\ disk \in [apk_src : BOOLEAN, build_ps1 : BOOLEAN, setup_ps1 : BOOLEAN,
                        sdkmanagers : {{}, {"sdk-a"}, {"sdk-b"}, {"android-sdk"}},
                        apk_dest : {"absent"}, dist_android : {FALSE},
                        android_sdk_root : {"None"}]
          /\ environ \in {[QuietMachine EXCEPT !.JAVA_HOME = h] :
                              h \in {"unset", "good", "bad"}}
       \/ /\ smode = "deploy"
          /\ os_environ = <<>>
          /\ disk = <<>>
          /\ environ = QuietMachine
       \/ /\ smode = "pipelines"
          /\ os_environ = <<>>
          /\ disk = <<>>
          /\ environ = QuietMachine
       \/ /\ smode = "save_items"
          /\ os_environ = <<>>
          /\ disk \in [target : {NoFile} \cup {OnDisk(l, TRUE) : l \in ShoppingLists},
                        tmp : {NoFile}]
          /\ environ = QuietMachine
    /\ step_calls = <<>>
    /\ mode = "none"
    /\ pc = "none"
    /\ selected = <<>>
    /\ ordered = <<>>
    /\ i = 1
    /\ j = 1
    /\ cur = NoBeh
    /\ failed_steps = <<>>
    /\ failed_count = 0
    /\ failed = FALSE
    /\ printed = <<>>
    /\ build_log = <<>>
    /\ log_file = "none"
    /\ exit_code = -1
    /\ err_len = ErrLimit
    /\ java_home = "None"
    /\ jdk_calls = <<>>
    /\ invoked = <<>>
    /\ returned = <<>>

StepNext ==
    \/ RunCommand
    \/ GenerateManifest
    \/ SetupAndroidToolchain
    \/ BuildAndroidApk
    \/ CopyAndroidApkToDist
    \/ ComparePipelines
    \/ DeployFull
    \/ ApkFull
    \/ SaveItems

all_vars == <<build_vars, release_vars, step_vars>>

StepSpec == StepInit /\ [][StepNext]_all_vars

(***************************************************************************)
(* Claims about the step functions of build_release.py.                    *)
(***************************************************************************)
\* the calls made so far of the step function func
CallsOf(func) == {k \in 1..Len(step_calls) : step_calls[k].func = func}

\* the path of a file relative to the output root, with forward slashes
RelPosix(f) == PathStr(f.parts, Slash)

\* the entries of a manifest as (category, position) pairs
EntriesOf(comps) == {<<c, k>> \in (DOMAIN comps) \X (1..(MaxManifestFiles + 1)) :
                        k <= Len(comps[c])}

\* the category the manifest is to give a file
TopLevel(f) == IF Len(f.parts) = 1 THEN Root ELSE f.parts[1]

\* C18. generate_manifest records every file under the output root exactly
\* once, with its path relative to the root, its size in bytes, and as
\* category the top-level directory name of that path, or "root" when the
\* file lies directly under the root.
C18_ManifestRecordsEveryFile ==
    \A n \in CallsOf("generate_manifest") :
        LET call == step_calls[n]
        IN  call.ret = "true" =>
                /\ \A f \in call.before :
                      \E e \in EntriesOf(call.components) :
                          /\ call.components[e[1]][e[2]].file = RelPosix(f)
                          /\ call.components[e[1]][e[2]].size_bytes = f.size
                          /\ e[1] = TopLevel(f)
                          /\ \A d \in EntriesOf(call.components) :
                                call.components[d[1]][d[2]].file = RelPosix(f) => d = e
                /\ \A e \in EntriesOf(call.components) :
                      \E f \in call.before : call.components[e[1]][e[2]].file = RelPosix(f)

\* the value the child process is to see for key k of the env argument
Override(v) == IF v.t = "int" THEN ToString(v.n) ELSE v.s

\* the keys of the env argument that carry a value
Overridden(env) == {k \in DOMAIN env : env[k].t # "None"}

\* C19. run_command gives the child process the ambient environment with
\* the env overrides merged on top: a key the env argument gives a value
\* other than None has that value, as a string, and every other key has its
\* ambient value; os.environ is the same after the call as before it,
\* whatever the command did.
C19_ChildEnvironmentMergedAmbientKept ==
    \A n \in CallsOf("run_command") :
        LET call == step_calls[n]
        IN  /\ DOMAIN call.child = DOMAIN call.before \cup Overridden(call.env)
            /\ \A k \in DOMAIN call.child :
                  call.child[k] = IF k \in Overridden(call.env)
                                  THEN Override(call.env[k])
                                  ELSE call.before[k]
            /\ call.before = os_environ

\* a command that did not succeed was run with an override of a key the
\* ambient environment sets, and a second call followed
C19_Witness ==
    /\ smode = "run_command"
    /\ Len(step_calls) = 2
    /\ step_calls[1].outcome = "exception"
    /\ "PATH" \in DOMAIN step_calls[1].before
    /\ "PATH" \in DOMAIN step_calls[1].env
    /\ step_calls[1].child["PATH"] = "override"
    /\ step_calls[1].before["PATH"] = "ambient"
    /\ step_calls[2].outcome = "ok"

\* what a call may do with the skip flag set and still have done no work:
\* look whether the APK is there
Worked(trace) == {k \in 1..Len(trace) : trace[k] # Did("stat", "apk_src")}

\* C20. When AURA_SKIP_ANDROID=1 is set, each of the steps android, apk and
\* apk-package reports success without doing any work: no toolchain
\* resolution, no external command, no file copy or other change of the
\* file system.
C20_SkipFlagDoesNoWork ==
    \A n \in 1..Len(step_calls) :
        LET call == step_calls[n]
        IN  (call.func \in AndroidSteps /\ call.skip) =>
                /\ call.ret = "true"
                /\ Worked(call.trace) = {}
                /\ call.after = call.before

\* the same for the steps android and apk alone
C20_SetupAndBuildSkip ==
    \A n \in 1..Len(step_calls) :
        LET call == step_calls[n]
        IN  (call.func \in AndroidSteps \ {"copy_android_apk_to_dist"} /\ call.skip) =>
                /\ call.ret = "true"
                /\ call.trace = <<>>
                /\ call.after = call.before

(***************************************************************************)
(* Claims about toolchain resolution (ensure_jdk).                         *)
(***************************************************************************)
\* the acquisition candidates of ensure_jdk on machine e, in declared order
DeclaredOrder(e) ==
    <<"JAVA_HOME", "PATH">>
    \o (IF e.AURA_JDK_URL THEN <<"AURA_JDK_URL">> ELSE <<>>)
    \o <<"api.adoptium.net", "microsoft-jdk-17.0.10", "microsoft-jdk-17.0.9", "winget">>

\* the candidate an entry of a trace is an attempt of, "" if it is none: the
\* look at JAVA_HOME, the first search for java, a download, the winget
\* command
AttemptOf(trace, k) ==
    LET d == trace[k]
    IN  CASE d = Did("env", "JAVA_HOME") -> "JAVA_HOME"
          [] d = Did("which", "java") /\ (\A m \in 1..(k - 1) : trace[m].kind # "run")
                -> "PATH"
          [] d.kind = "download" -> d.arg
          [] d = Did("run", "winget") -> "winget"
          [] OTHER -> ""

\* the candidates a call attempted, in the order it attempted them
RECURSIVE AttemptsFrom(_, _)
AttemptsFrom(trace, k) ==
    IF k > Len(trace) THEN <<>>
    ELSE (IF AttemptOf(trace, k) = "" THEN <<>> ELSE <<AttemptOf(trace, k)>>)
         \o AttemptsFrom(trace, k + 1)

Attempts(call) == AttemptsFrom(call.trace, 1)

IsPrefixOf(a, b) == Len(a) <= Len(b) /\ SubSeq(b, 1, Len(a)) = a

\* attempt number k of a call obtained the tool (for a URL: the file)
Acquired(call, k) ==
    LET name == Attempts(call)[k]
    IN  CASE name = "JAVA_HOME" -> call.before.JAVA_HOME = "good"
          [] name = "PATH" -> call.before.java_on_path
          [] name = "winget" -> call.inp.wg = "java"
          [] OTHER -> call.inp.first_ok = k - 2

\* C21. ensure_jdk tries its candidates in the declared order (JAVA_HOME,
\* java on the search path, the download URLs in list order with the
\* override URL first, winget); when candidate k is the first that succeeds
\* the call made k attempts at most: no candidate after k is attempted.
C21_CandidatesInDeclaredOrder ==
    \A n \in 1..Len(jdk_calls) :
        LET call == jdk_calls[n]
        IN  /\ IsPrefixOf(Attempts(call), DeclaredOrder(call.before))
            /\ \A k \in 1..Len(Attempts(call)) :
                  Acquired(call, k) => k = Len(Attempts(call))

\* the override URL failed, the first built-in URL delivered the JDK
C21_Witness ==
    /\ Len(jdk_calls) >= 1
    /\ jdk_calls[1].before.AURA_JDK_URL
    /\ jdk_calls[1].ret = "true"
    /\ Attempts(jdk_calls[1]) = <<"JAVA_HOME", "PATH", "AURA_JDK_URL", "api.adoptium.net">>
    /\ Acquired(jdk_calls[1], 4)

\* the candidates of ensure_jdk that can be attempted on machine e: winget
\* only on Windows with winget on the search path
Available(e) ==
    {DeclaredOrder(e)[k] : k \in 1..Len(DeclaredOrder(e))}
    \ (IF e.os_nt /\ e.winget_on_path THEN {} ELSE {"winget"})

Attempted(call) == {Attempts(call)[k] : k \in 1..Len(Attempts(call))}

\* C22. ensure_jdk reports failure only after every candidate has been
\* attempted and has failed: a call that returned False attempted each of
\* its candidates, and none of them obtained the tool or the archive.
C22_FailsOnlyAfterEveryCandidate ==
    \A n \in 1..Len(jdk_calls) :
        LET call == jdk_calls[n]
        IN  call.ret = "false" =>
                /\ Available(call.before) \subseteq Attempted(call)
                /\ \A k \in 1..Len(Attempts(call)) : ~Acquired(call, k)

\* what holds of a call that returned False: either every URL was attempted
\* and failed, or the call had an archive, cached or just downloaded, and
\* failed to install from it
C22_FailsWithArchiveOrAfterEveryUrl ==
    \A n \in 1..Len(jdk_calls) :
        LET call == jdk_calls[n]
        IN  call.ret = "false" =>
                \/ /\ call.inp.first_ok = 0
                   /\ Available(call.before) \ {"winget"} \subseteq Attempted(call)
                \/ call.after.jdk_zip # "absent"

\* a call that found an archive in the cache and no installed JDK: JAVA_HOME
\* and the search path gave nothing, temurin-jdk17.zip exists, jdk-17 does not
FoundArchiveOnly(call) ==
    /\ call.before.JAVA_HOME # "good"
    /\ ~call.before.java_on_path
    /\ call.before.jdk_zip # "absent"
    /\ call.before.jdk_root = "absent"

Downloaded(call) == \E k \in 1..Len(call.trace) : call.trace[k].kind = "download"

Extracted(call) == \E k \in 1..Len(call.trace) : call.trace[k].kind = "extract"

\* the part that holds: an intact cached archive is extracted and not
\* downloaded again
C23_IntactArchiveIsExtracted ==
    \A n \in 1..Len(jdk_calls) :
        LET call == jdk_calls[n]
        IN  (FoundArchiveOnly(call) /\ call.before.jdk_zip = "intact"
                                    /\ call.inp.io = "ok") =>
                /\ call.ret = "true"
                /\ Extracted(call)
                /\ ~Downloaded(call)

\* C23. An archive in the cache without an installed tool means "not yet
\* installed": an intact archive is extracted without a download, and an
\* archive whose extraction fails because it is corrupt or truncated is
\* downloaded again.
C23_CorruptArchiveIsDownloadedAgain ==
    \A n \in 1..Len(jdk_calls) :
        LET call == jdk_calls[n]
        IN  FoundArchiveOnly(call) =>
                /\ (call.before.jdk_zip = "intact" /\ call.inp.io = "ok") =>
                      (call.ret = "true" /\ Extracted(call) /\ ~Downloaded(call))
                /\ call.before.jdk_zip = "corrupt" =>
                      (Extracted(call) /\ Downloaded(call))

\* the place in its trace where a call ran the winget command, 0 if nowhere
WingetAt(call) ==
    IF \E k \in 1..Len(call.trace) : call.trace[k] = Did("run", "winget")
    THEN CHOOSE k \in 1..Len(call.trace) : call.trace[k] = Did("run", "winget")
    ELSE 0

\* the download URLs of a call, the override first when it is set
Urls(call) ==
    (IF call.before.AURA_JDK_URL THEN {"AURA_JDK_URL"} ELSE {})
    \cup {"api.adoptium.net", "microsoft-jdk-17.0.10", "microsoft-jdk-17.0.9"}

\* C24. ensure_jdk runs winget only as the last resort, after the download
\* from every URL has failed, and takes a winget install as a resolution
\* only if java is found on the search path afterwards; otherwise the call
\* fails.
C24_WingetLastAndVerified ==
    \A n \in 1..Len(jdk_calls) :
        LET call == jdk_calls[n]
        IN  WingetAt(call) # 0 =>
                /\ call.inp.first_ok = 0
                /\ \A u \in Urls(call) :
                      \E k \in 1..(WingetAt(call) - 1) : call.trace[k] = Did("download", u)
                /\ \A k \in (WingetAt(call) + 1)..Len(call.trace) :
                      call.trace[k].kind # "download"
                /\ call.ret = "true" <=> call.after.java_on_path
                /\ call.ret = "true" =>
                      call.trace[Len(call.trace)] = Did("which", "java")

\* winget exited 0 and java is still not on the search path: the call failed
C24_Witness ==
    /\ Len(jdk_calls) = 2
    /\ WingetAt(jdk_calls[1]) # 0
    /\ jdk_calls[1].inp.wg = "nojava"
    /\ jdk_calls[1].ret = "false"
    /\ WingetAt(jdk_calls[2]) # 0
    /\ jdk_calls[2].inp.wg = "java"
    /\ jdk_calls[2].ret = "true"

(***************************************************************************)
(* Claims about the tool-home variables.                                   *)
(***************************************************************************)
\* the calls of the Android steps made so far
AndroidCalls == {n \in 1..Len(step_calls) : step_calls[n].func \in AndroidSteps}

Has(call, kind, arg) == \E k \in 1..Len(call.trace) : call.trace[k] = Did(kind, arg)

\* the path the SDK's tool-home variable names: ANDROID_SDK_ROOT, or
\* ANDROID_HOME when ANDROID_SDK_ROOT is not set; "" when neither is set
SdkHome ==
    IF "ANDROID_SDK_ROOT" \in DOMAIN os_environ THEN os_environ["ANDROID_SDK_ROOT"]
    ELSE IF "ANDROID_HOME" \in DOMAIN os_environ THEN os_environ["ANDROID_HOME"]
    ELSE ""

C25_WitnessShadowed ==
    /\ smode = "android"
    /\ Len(step_calls) = 1
    /\ DOMAIN os_environ = {"ANDROID_SDK_ROOT", "ANDROID_HOME"}
    /\ step_calls[1].before.sdkmanagers = {"sdk-b"}
    /\ step_calls[1].after.android_sdk_root = "android-sdk"
    /\ ~Has(step_calls[1], "env", "ANDROID_HOME")

(***************************************************************************)
(* Claims about main's staging and safe_replace_existing.                  *)
(***************************************************************************)
\* main found a file at the canonical path that it could not unlink
Locked ==
    /\ rmode = "stage"
    /\ renv.dist.out_zip # "absent"
    /\ renv.unlink = "PermissionError"

\* the suffixes .old<i> under which a rename of the file works
Renamable == {k \in 1..999 : k \in renv.renames}

\* safe_replace_existing has returned or ended the run
Replaced == rpc \in {"zip", "done"} \/ (rpc = "aborted" /\ result # "raise")

\* C26. When the existing output file cannot be unlinked because it is
\* locked, safe_replace_existing renames it aside under the first of the
\* names .old1 to .old999 for which the rename works, the canonical path is
\* then free and the new archive is written there; the run ends with
\* SystemExit only when the unlink and all 999 renames fail.
C26_LockedFileIsRenamedAside ==
    (Locked /\ Replaced) =>
        IF Renamable # {}
        THEN /\ rpc \in {"zip", "done"}
             /\ \E k \in Renamable :
                   /\ \A m \in Renamable : k <= m
                   /\ k \in DOMAIN dist.olds
                   /\ dist.olds[k] = renv.dist.out_zip
                   /\ launched = <<k>>
             /\ rpc = "zip" => dist.out_zip = "absent"
             /\ rpc = "done" => dist.out_zip = "new"
        ELSE /\ rpc = "aborted"
             /\ result = "SystemExit"
             /\ launched = <<999>>
             /\ dist = renv.dist

\* the file was locked, .old1 was taken, the file went to .old2 and the new
\* archive is at the canonical path
C26_Witness ==
    /\ Locked
    /\ rpc = "done"
    /\ renv.renames = {2, 5}
    /\ dist.olds = [m \in {1, 2} |-> IF m = 1 THEN "older" ELSE "old"]
    /\ dist.out_zip = "new"

\* the entries of the SDK zip as (name, data) pairs
Zipped == {<<archives[1][k].filename, archives[1][k].data>> : k \in 1..Len(archives[1])}

\* the regular files this run staged
StagedNow == {s \in renv.sources : s.file}

\* C30. The SDK zip holds exactly the regular files staged in this run,
\* each once: dist/AuraSDK is emptied before the staging, so nothing an
\* earlier run left there is in the archive.
C30_ArchiveIsWhatWasStaged ==
    (rmode = "stage" /\ rpc = "done") =>
        /\ Zipped = {<<rel(s), s.data>> : s \in StagedNow}
        /\ Len(archives[1]) = Cardinality(StagedNow)

\* an earlier run left old.txt and an older a.txt; this run staged a.txt and
\* an empty directory
C30_Witness ==
    /\ rmode = "stage"
    /\ rpc = "done"
    /\ Cardinality(renv.leftovers) = 2
    /\ \E s \in StagedNow : s.parts = <<<<97, 46, 116, 120, 116>>>>
    /\ \E s \in renv.sources : ~s.file
    /\ Len(archives[1]) >= 1

(***************************************************************************)
(* Claims about I/O failures inside a step.                                *)
(***************************************************************************)
\* the calls of copy_android_apk_to_dist in which shutil.copy2 was reached and
\* left no APK in dist/android
FailedCopies ==
    {n \in AndroidCalls :
        /\ step_calls[n].func = "copy_android_apk_to_dist"
        /\ Has(step_calls[n], "copy", "apk_src")
        /\ step_calls[n].after.apk_dest # "copied"}

\* C27. A packaging I/O failure inside a step, such as a failing copy of the
\* APK into dist/android, becomes a recorded failure of that step: the step
\* does not report success, so that run_selected_steps records it in
\* failed_steps and returns 1.
C27_CopyFailureIsARecordedFailure ==
    \A n \in FailedCopies : step_calls[n].ret = "false"

\* what the code does instead: the failing copy is logged as a warning, the
\* step returns True and nothing is added to failed_steps
C27_CopyFailureIsOnlyWarned ==
    \A n \in FailedCopies :
        /\ step_calls[n].ret = "true"
        /\ failed_steps = <<>>
        /\ \E k \in 1..Len(build_log) :
              /\ build_log[k].level = "WARN"
              /\ build_log[k].msg = "Failed to copy APK: "

(***************************************************************************)
(* Claims about the summary and the persisted log.                         *)
(***************************************************************************)
\* the lines of l that are the title of the summary section
SummaryTitles(l) ==
    {k \in 1..Len(l) : l[k].msg = "section" /\ l[k].who = "BUILD SUMMARY"}

\* the failure lines of l, in order, as (step, detail) pairs
ListedIn(l) ==
    LET lines == SelectSeq(l, LAMBDA e : e.msg = "  - ")
    IN  [k \in 1..Len(lines) |-> [step |-> lines[k].who, error |-> lines[k].err]]

\* failed_steps with every detail cut to its first ErrLimit characters
Truncated(fs) ==
    [k \in 1..Len(fs) |-> [step |-> fs[k].step,
                           error |-> [fs[k].error EXCEPT !.len = IF @ > ErrLimit
                                                                 THEN ErrLimit ELSE @]]]

\* C28. In build_all and run_selected_steps the summary is logged only after
\* every step of the run has been processed; it lists every entry of
\* failed_steps, in order, with the detail cut to 100 characters; and the
\* log file is written after it, holding every line logged up to and
\* including the summary.
C28_SummaryLastThenLogWritten ==
    InAuraBuilder =>
        /\ SummaryTitles(build_log) # {} =>
              /\ AfterSummary
              /\ j > Len(ordered)
              /\ Len(returned) = Len(ordered)
        /\ AfterSummary =>
              /\ Cardinality(SummaryTitles(build_log)) = 1
              /\ ListedIn(build_log) = Truncated(failed_steps)
        /\ log_file # "none" <=> pc \in {"return", "done"}
        /\ pc \in {"return", "done"} =>
              /\ build_log = log(log_file, "INFO", "Build log saved: ", "", NoText, 0)
              /\ SummaryTitles(log_file) # {}
              /\ ListedIn(log_file) = Truncated(failed_steps)

\* a run with two failures whose details are longer than 100 characters has
\* returned with the log written
C28_Witness ==
    /\ InAuraBuilder
    /\ pc = "done"
    /\ Len(failed_steps) >= 2
    /\ \E k \in 1..Len(failed_steps) : failed_steps[k].error.len > ErrLimit
    /\ log_file # "none"
    /\ Len(ListedIn(log_file)) >= 2

(***************************************************************************)
(* Claims about run_command and a missing tool.                            *)
(***************************************************************************)
\* the calls of run_command whose command names a tool that does not exist
MissingToolCalls ==
    {n \in 1..Len(step_calls) :
        step_calls[n].func = "run_command" /\ step_calls[n].outcome = "missing"}

BuildApkAt(m) == CHOOSE k \in 1..Len(BuilderSteps(m)) : BuilderSteps(m)[k] = "Build APK"

\* C31. In AndroidBuilder.build and GradleSetup.setup_and_build the steps
\* are invoked in list order and only a failure of "Build APK" ends the
\* loop: a step other than "Build APK" that returned False or raised is
\* followed by the next step, "Copy to Distribution" is invoked exactly when
\* "Build APK" returned True, and the exit status is 1 exactly when an
\* invoked step returned False or raised.
C31_OnlyBuildApkIsFatal ==
    (InBuilder /\ pc # "start") =>
        LET listed == BuilderSteps(mode)
            fatal == BuildApkAt(mode)
        IN  /\ invoked = SubSeq(listed, 1, Len(invoked))
            /\ Len(returned) <= Len(invoked)
            /\ \A k \in 1..Len(returned) :
                  (k # fatal /\ k < Len(listed) /\ pc \in {"loop", "done"}) =>
                      Len(invoked) > k \/ (pc = "loop" /\ j = k + 1)
            /\ pc = "done" =>
                  /\ Len(returned) = Len(invoked)
                  /\ Len(invoked) >= fatal
                  /\ ("Copy to Distribution" \in {invoked[k] : k \in 1..Len(invoked)})
                        <=> returned[fatal] = "true"
                  /\ exit_code = 1 <=> FailedIdx # {}
                  /\ exit_code = 0 <=> FailedIdx = {}

\* setup_and_build: the download raised, the extraction returned False, the
\* build worked and the copy was invoked; the status is 1
C31_Witness ==
    /\ mode = "GradleSetup.setup_and_build"
    /\ pc = "done"
    /\ returned[1] = "raise"
    /\ returned[2] = "false"
    /\ returned[BuildApkAt(mode)] = "true"
    /\ invoked[Len(invoked)] = "Copy to Distribution"
    /\ exit_code = 1

\* build: "Build APK" raised and "Copy to Distribution" was not invoked
C31_WitnessFatal ==
    /\ mode = "AndroidBuilder.build"
    /\ pc = "done"
    /\ returned = <<"true", "true", "true", "raise">>
    /\ invoked = SubSeq(AndroidBuilderSteps, 1, 4)
    /\ exit_code = 1

(***************************************************************************)
(* Claims about build_all and run_selected_steps.                          *)
(***************************************************************************)
\* the compared runs in which run_selected_steps got exactly build_all's keys
SameKeysRuns ==
    {n \in 1..Len(step_calls) :
        step_calls[n].func = "build_all" /\ step_calls[n].selected = BuildAllSteps}

\* C32. Whatever the step functions do (return True, return False, raise,
\* fail commands), build_all and run_selected_steps called with the keys
\* core, sentinel, android, apk, apk-package, verify, dist, manifest call the
\* same functions in the same order, leave the same entries in failed_steps
\* and return the same status.
C32_BuildAllIsRunSelectedSteps ==
    \A n \in SameKeysRuns :
        /\ step_calls[n].build_all.invoked = step_calls[n].run_selected_steps.invoked
        /\ step_calls[n].build_all.failed_steps
              = step_calls[n].run_selected_steps.failed_steps
        /\ step_calls[n].build_all.exit_code = step_calls[n].run_selected_steps.exit_code

\* a compared run in which a command failed, a step returned False without a
\* command, and a step raised: eight functions called, status 1
C32_Witness ==
    /\ SameKeysRuns = {1}
    /\ step_calls[1].outcomes["build_aura_core"].ret = "false"
    /\ step_calls[1].outcomes["verify_binaries"].ret = "false"
    /\ step_calls[1].outcomes["generate_manifest"].ret = "raise"
    /\ step_calls[1].outcomes["build_sentinel_ide"].ret = "true"
    /\ Len(step_calls[1].build_all.invoked) = 8
    /\ Len(step_calls[1].build_all.failed_steps) >= 4
    /\ step_calls[1].build_all.exit_code = 1

(***************************************************************************)
(* Claims about the order of the resolutions in the "apk" step.            *)
(***************************************************************************)
\* the calls of build_android_apk made without the skip flag
ApkCalls ==
    {n \in AndroidCalls :
        step_calls[n].func = "build_android_apk" /\ ~step_calls[n].skip}

\* where in the call's trace the thing was first done; 0 if it never was
FirstAt(call, kind, arg) ==
    IF Has(call, kind, arg)
    THEN CHOOSE k \in 1..Len(call.trace) :
            /\ call.trace[k] = Did(kind, arg)
            /\ \A m \in 1..(k - 1) : call.trace[m] # Did(kind, arg)
    ELSE 0

\* the first thing each resolution does, and the build command
JdkAt(call) == FirstAt(call, "env", "JAVA_HOME")
SdkAt(call) == FirstAt(call, "env", "AURA_ANDROID_SDK_ROOT")
WrapperAt(call) == FirstAt(call, "stat", "gradlew.bat")
BuildAt(call) == FirstAt(call, "run", "build-apk.ps1")

\* what a successful resolution leaves: a java that can be found, and a
\* recorded SDK root that holds sdkmanager.bat
JdkResolved(call) ==
    \/ call.found.JAVA_HOME = "good"
    \/ call.found.java_on_path
    \/ call.found.jdk_root = "jdk"

SdkResolved(call) ==
    /\ call.after.android_sdk_root # "None"
    /\ call.after.android_sdk_root \in call.after.sdkmanagers

\* no command of a resolution failed in the call
NoResolutionFailed(call) ==
    \A k \in 1..Len(call.failures) :
        call.failures[k].step = "Build APK (debug) via sdk/android/build-apk.ps1"

C33_WitnessSdkFailed ==
    /\ ApkCalls = {1}
    /\ Has(step_calls[1], "run", "setup-android.ps1")
    /\ ~SdkResolved(step_calls[1])
    /\ JdkResolved(step_calls[1])
    /\ WrapperAt(step_calls[1]) = 0
    /\ step_calls[1].ret = "false"

(***************************************************************************)
(* Claims about what run_command returns and records.                      *)
(***************************************************************************)
\* the calls of run_command that returned failure, in order
FailedRuns ==
    SelectSeq(step_calls, LAMBDA call : call.func = "run_command" /\ ~call.ret)

\* C34. Whatever the process does (exit 0, exit nonzero, missing tool,
\* timeout, error of subprocess.run), run_command returns a (succeeded,
\* text) pair: succeeded exactly when the process exited 0; a timeout is a
\* failure; each failing call appends exactly one entry to failed_steps,
\* holding the returned text, and a successful call appends none.
C34_RunCommandAlwaysReturnsAPair ==
    smode = "run_command" =>
        /\ \A n \in 1..Len(step_calls) :
              /\ step_calls[n].ret \in BOOLEAN
              /\ step_calls[n].ret <=> step_calls[n].outcome = "ok"
              /\ step_calls[n].detail \in [text : STRING, arg : STRING, len : Nat]
              /\ step_calls[n].outcome = "timeout" =>
                    ~step_calls[n].ret /\ step_calls[n].detail.text = "timeout"
        /\ Len(failed_steps) = Len(FailedRuns)
        /\ \A k \in 1..Len(failed_steps) :
              /\ failed_steps[k].error = FailedRuns[k].detail
              /\ failed_steps[k].step = "a command"

\* a command timed out and the next one succeeded: one entry in failed_steps
C34_Witness ==
    /\ smode = "run_command"
    /\ Len(step_calls) = 2
    /\ step_calls[1].outcome = "timeout"
    /\ step_calls[2].outcome = "ok"
    /\ Len(failed_steps) = 1
    /\ failed_steps[1].error.text = "timeout"

(***************************************************************************)
(* Claims about the files of repack_zip_deterministic.                     *)
(***************************************************************************)
\* C35. When repack_zip_deterministic raises while it reads the source or
\* writes its temporary file, what is at dst_zip is what the call found
\* there, also when src_zip is dst_zip; dst_zip is removed and replaced only
\* once the temporary file holds the whole repacked archive.
C35_FailedRepackLeavesDestination ==
    rmode = "replace" =>
        /\ (rpc = "aborted" /\ result = "raised before tmp was whole") =>
              dist.dst = renv.dst
        /\ rpc \in {"tmp", "replace"} => dist.dst = renv.dst
        /\ rpc = "replace" =>
              dist.tmp = OnDisk(repack_zip_deterministic(renv.src), TRUE)
        /\ rpc = "done" =>
              dist.dst = OnDisk(repack_zip_deterministic(renv.src), TRUE)

\* an archive was being repacked onto itself when the second entry could not
\* be written: the archive is as it was, beside a tmp cut short
C35_Witness ==
    /\ rmode = "replace"
    /\ rpc = "aborted"
    /\ renv.same
    /\ dist.dst = OnDisk(renv.src, TRUE)
    /\ dist.tmp.exists
    /\ Len(dist.tmp.entries) = 1
    /\ ~dist.tmp.whole

(***************************************************************************)
(* Claims about generating the manifest twice.                             *)
(***************************************************************************)
\* the inventory a call recorded, as the set of its (category, entry) pairs
Inventory(call) ==
    {<<e[1], call.components[e[1]][e[2]]>> : e \in EntriesOf(call.components)}

\* the successful calls of generate_manifest that follow a successful one
\* with nothing in between
SecondRuns ==
    {n \in CallsOf("generate_manifest") :
        /\ n > 1
        /\ n - 1 \in CallsOf("generate_manifest")
        /\ step_calls[n].ret = "true"
        /\ step_calls[n - 1].ret = "true"}

\* C36. generate_manifest called twice in succession on an output tree that
\* nothing else changes records the same inventory both times: the
\* MANIFEST.json it writes under dist-release/ is not among the files the
\* second call records.
C36_SecondManifestSameInventory ==
    \A n \in SecondRuns : Inventory(step_calls[n]) = Inventory(step_calls[n - 1])

\* what the code does instead: the second call records what the first call
\* recorded and, in a category of its own name, the MANIFEST.json that the
\* first call wrote
C36_SecondManifestRecordsTheFirst ==
    \A n \in SecondRuns :
        LET first == Inventory(step_calls[n - 1])
            second == Inventory(step_calls[n])
            own == {p \in second : p[1] = MANIFEST_json}
        IN  /\ {p \in first : p[1] # MANIFEST_json} = second \ own
            /\ Cardinality(own) = 1
            /\ \A p \in own : p[2].size_bytes > 0

(***************************************************************************)
(* Claims about the deployment pipelines.                                  *)
(***************************************************************************)
\* the calls of deploy_full and full
DeployCalls == {n \in 1..Len(step_calls) : step_calls[n].func \in {"deploy_full", "full"}}

\* the stages of a pipeline on machine m, in order
StagesFor(m) == (IF m.platform_tools THEN <<>> ELSE <<"setup">>) \o <<"build", "run">>

\* did the stage succeed on the call's machine
StageOk(call, stage) ==
    CASE stage = "setup" ->
            /\ call.machine.setup
            /\ call.func = "full" => call.machine.java = "ok"
      [] stage = "build" ->
            /\ call.machine.build
            /\ call.func = "full" => call.machine.source
      [] stage = "run" -> call.machine.run

AllExecutedOk(call) ==
    \A k \in 1..Len(call.run.stages) : StageOk(call, call.run.stages[k])

\* the stages run in the order setup, build, run; setup only when
\* platform-tools is absent; a stage only after every earlier one succeeded
StagesInOrder(call) ==
    /\ Len(call.run.stages) <= Len(StagesFor(call.machine))
    /\ call.run.stages = SubSeq(StagesFor(call.machine), 1, Len(call.run.stages))
    /\ \A k \in 1..(Len(call.run.stages) - 1) : StageOk(call, call.run.stages[k])

\* C37 as stated. In deploy_full and full the stages run in the order setup,
\* build, run, setup only when platform-tools is absent, each later stage
\* only if every earlier executed stage succeeded, and the result is success
\* if and only if every executed stage succeeded.
C37_SuccessIffEveryExecutedStageSucceeded ==
    \A n \in DeployCalls :
        /\ StagesInOrder(step_calls[n])
        /\ step_calls[n].run.ret = "true" <=> AllExecutedOk(step_calls[n])

\* C37, amended. As above, but the result is success if and only if the
\* source file exists and every stage of the pipeline was executed and
\* succeeded: deploy_full returns False without executing any stage when the
\* source file does not exist.
C37_SuccessIffSourceAndEveryStageSucceeded ==
    \A n \in DeployCalls :
        LET call == step_calls[n]
        IN  /\ StagesInOrder(call)
            /\ call.run.ret = "true" <=>
                  /\ call.machine.source
                  /\ call.run.stages = StagesFor(call.machine)
                  /\ AllExecutedOk(call)
            /\ (call.func = "deploy_full" /\ ~call.machine.source) =>
                  call.run.stages = <<>> /\ call.run.ret = "false"
            /\ (call.machine.source /\ call.run.ret # "true") =>
                  /\ call.run.stages # <<>>
                  /\ ~StageOk(call, call.run.stages[Len(call.run.stages)])

\* deploy_full without platform-tools: setup, build and run were executed
\* and the result is success
C37_Witness ==
    /\ DeployCalls = {1}
    /\ step_calls[1].func = "deploy_full"
    /\ step_calls[1].run.stages = <<"setup", "build", "run">>
    /\ Len(step_calls[1].run.processes) = 3
    /\ step_calls[1].run.ret = "true"

\* full with platform-tools present: the build failed and run was not
\* executed
C37_WitnessBuildFailed ==
    /\ DeployCalls = {1}
    /\ step_calls[1].func = "full"
    /\ step_calls[1].machine.source
    /\ step_calls[1].run.stages = <<"build">>
    /\ step_calls[1].run.ret = "false"

\* ---------------------------------------------------------------------
\* C38
\* ---------------------------------------------------------------------

SaveCalls == {n \in 1..Len(step_calls) : step_calls[n].func = "save_items"}

\* the target holds the complete previous content or the complete new content
PreviousOrNew(call) ==
    /\ call.after.target \in {call.before.target, OnDisk(call.items, TRUE)}
    /\ call.after.target.exists => call.after.target.whole

\* C38. As stated: after save_items, whether it returned or raised, the target
\* holds the complete previous content or the complete new content and no
\* temporary file is left.
C38_SaveLeavesNoTemporaryFile ==
    \A n \in SaveCalls :
        /\ PreviousOrNew(step_calls[n])
        /\ ~step_calls[n].after.tmp.exists

\* C38. After save_items, whether it returned or raised, the target holds the
\* complete previous content or the complete new content, never a partial
\* write; after a normal return it holds the new content and no temporary
\* file is left; after a raise the temporary file is left exactly when it had
\* been created and its removal failed.
C38_SaveIsAtomicAndRemovesWhatItCan ==
    \A n \in SaveCalls :
        LET call == step_calls[n]
        IN  /\ PreviousOrNew(call)
            /\ ~call.raised =>
                  call.after = [target |-> OnDisk(call.items, TRUE), tmp |-> NoFile]
            /\ call.raised => call.after.target = call.before.target
            /\ call.after.tmp.exists <=>
                  /\ call.fault \in {"fdopen", "json.dump", "os.replace"}
                  /\ ~call.remove_ok

\* a save that raised in the middle of writing over a different saved list,
\* and whose temporary file was removed
C38_Witness ==
    \E n \in SaveCalls :
        /\ step_calls[n].fault = "json.dump"
        /\ step_calls[n].remove_ok
        /\ step_calls[n].before.target.exists
        /\ step_calls[n].before.target.entries # step_calls[n].items
        /\ step_calls[n].items # <<>>

\* a save that returned over a different saved list
C38_WitnessSaved ==
    \E n \in SaveCalls :
        /\ ~step_calls[n].raised
        /\ step_calls[n].before.target.exists
        /\ step_calls[n].before.target.entries # step_calls[n].items

====
